---- MODULE Spec2Model ----
(***************************************************************************)
(* Verification model of the SQL parsing and lineage aggregation code of   *)
(* the metadata-ingestion package:                                         *)
(*   - BigQueryQueriesExtractor.deduplicate_queries (queries_extractor.py) *)
(*   - BigqueryLineageExtractor.get_upstream_tables (bigquery/lineage.py)  *)
(*   - the column-aware temp-table resolution of bigquery_v2/lineage.py    *)
(*   - _table_level_lineage (utilities/sqlglot_lineage.py)                 *)
(*   - SchemaResolver and sqlglot_tester (utilities/sqlglot_lineage.py)    *)
(*   - the run of a queries source over its persistent collections         *)
(* Each subsystem has its own specification; the variables of the other    *)
(* subsystems are left unchanged by it.                                    *)
(***************************************************************************)
EXTENDS Integers, Sequences, FiniteSets, TLC

VARIABLES
    \* ---- BigQueryQueriesExtractor (queries_extractor.py)
    pc,                 \* position of get_workunits_internal
    queries,            \* FileBackedList[ObservedQuery]: the fetched audit log
    queries_deduped,    \* query_hash -> (time_bucket -> ObservedQuery)
    i,                  \* index of the next entry of the enumerate() loop
    num_total_queries,  \* report.num_total_queries
    num_unique_queries, \* report.num_unique_queries
    \* ---- BigqueryLineageExtractor (bigquery/lineage.py)
    lineage_metadata,   \* self.lineage_metadata: None, or table -> set of tables
    stack,              \* frames of get_upstream_tables: bq_table, refs left, upstreams
    tables_seen,        \* the tables_seen list of the current resolution
    skipped,            \* tables the current resolution logged as "seen already"
    returned,           \* what the last get_upstream_lineage_info returned
    report_failures,    \* report.failures (keys given to report_failure)
    report_upstream_lineage,    \* report.upstream_lineage
    upstream_lineage_in_report, \* config.upstream_lineage_in_report
    \* ---- column-aware lineage of bigquery_v2/lineage.py
    observed_edges,     \* the lineage instances (destination, LineageEdge) fed so far
    edge_metadata,      \* lineage_metadata: table -> (upstream table -> LineageEdge)
    resolved,           \* the last result of get_upstream_tables, with its table
    \* ---- table-level lineage of utilities/sqlglot_lineage.py
    statement,          \* the parsed statement: its Table nodes, DML nodes and CTE nodes
    table_lineage,      \* what _table_level_lineage returned for it
    \* ---- SchemaResolver (utilities/sqlglot_lineage.py)
    graph,    \* self.graph is set
    schema_cache,    \* self._schema_cache: urn -> SchemaInfo or None
    get_aspect_calls,    \* the calls of graph.get_aspect so far, with what each did
    resolve_result,   \* the last call of the resolver and what it gave
    \* ---- sqlglot_tester (utilities/sqlglot_lineage.py)
    tester_sql,    \* the sql of the last call of sqlglot_tester, as sqlglot reads it
    tester_cache,    \* the _schema_cache of the schema_resolver given to sqlglot_tester
    table_name_schema_mapping,    \* the local of the last call: the tables with a schema
    tester_result,   \* the SqlParsingResult of the last call, or the exception
    \* ---- BigqueryLineageExtractor._create_lineage_map (bigquery/lineage.py)
    pattern_config,    \* config.schema_pattern and config.table_pattern
    entry_lineage_map,    \* the lineage_map of _create_lineage_map
    lineage_report,   \* the counters of the report that _create_lineage_map sets
    \* ---- the run of a queries source (snowflake_queries.py, queries_extractor.py)
    audit_log,    \* the rows the audit log query returns
    run_pc,    \* position of get_workunits_internal
    row_index,    \* rows of the log read so far
    queries_file,    \* queries: the FileBackedList
    add_index,    \* queries given to the aggregator so far
    received,    \* the queries aggregator.add was called with, in order
    aggregator,    \* the state of the SqlParsingAggregator
    run_report,    \* warnings of the source and parse failures of the aggregator
    yielded,    \* what the current call of gen_metadata has yielded
    yielded_before,    \* what the call of gen_metadata before it yielded
    gen_calls,   \* finished calls of gen_metadata
    \* ---- the cached audit log (queries_extractor.py, test_bigquery_queries.py)
    audit_log_file,    \* the store audit_log.sqlite: whether it exists, and its rows
    query_cache,    \* the FileBackedList of the process that writes the store
    appended,    \* the items appended to query_cache, in order
    flushed,    \* query_cache.flush() was the last call on query_cache
    store_pc,    \* position of the run that opens the store
    opened,    \* queries: the FileBackedList of the run
    fetches,   \* calls of fetch_query_log by the run
    \* ---- deduplicate_queries over the FileBackedDict (queries_extractor.py)
    backed_queries,    \* queries: the entries deduplicate_queries goes through
    backed_pc,    \* position of deduplicate_queries
    backed_i,    \* index of the next entry
    backed_deduped,    \* queries_deduped: the FileBackedDict
    plain_deduped,    \* the dict a plain {} would be after the same entries
    backed_result,   \* what queries_deduped.values() gives after the loop
    \* ---- Scope.traverse as patched (_sqlglot_patch.py)
    scope_graph,    \* the scopes of a statement: the root and what each scope depends on
    traversal    \* what scope.traverse() did: the scopes it returned, or that it raised

dedupVars == <<pc, queries, queries_deduped, i, num_total_queries, num_unique_queries>>

tempVars == <<lineage_metadata, stack, tables_seen, skipped, returned,
              report_failures, report_upstream_lineage, upstream_lineage_in_report>>

edgeVars == <<observed_edges, edge_metadata, resolved>>

tableVars == <<statement, table_lineage>>

resolverVars == <<graph, schema_cache, get_aspect_calls, resolve_result>>

testerVars == <<tester_sql, tester_cache, table_name_schema_mapping, tester_result>>

mapVars == <<pattern_config, entry_lineage_map, lineage_report>>

runVars == <<audit_log, run_pc, row_index, queries_file, add_index, received, aggregator, run_report, yielded, yielded_before, gen_calls>>

storeVars == <<audit_log_file, query_cache, appended, flushed, store_pc, opened, fetches>>

backedVars == <<backed_queries, backed_pc, backed_i, backed_deduped, plain_deduped, backed_result>>

scopeVars == <<scope_graph, traversal>>

vars == <<dedupVars, tempVars, edgeVars, tableVars, resolverVars, testerVars, mapVars, runVars, storeVars, backedVars, scopeVars>>

\* What each subsystem leaves alone.
notDedup == <<tempVars, edgeVars, tableVars, resolverVars, testerVars, mapVars, runVars, storeVars, backedVars, scopeVars>>
notTemp == <<dedupVars, edgeVars, tableVars, resolverVars, testerVars, mapVars, runVars, storeVars, backedVars, scopeVars>>
notEdge == <<dedupVars, tempVars, tableVars, resolverVars, testerVars, mapVars, runVars, storeVars, backedVars, scopeVars>>
notTable == <<dedupVars, tempVars, edgeVars, resolverVars, testerVars, mapVars, runVars, storeVars, backedVars, scopeVars>>
notResolver == <<dedupVars, tempVars, edgeVars, tableVars, testerVars, mapVars, runVars, storeVars, backedVars, scopeVars>>
notTester == <<dedupVars, tempVars, edgeVars, tableVars, resolverVars, mapVars, runVars, storeVars, backedVars, scopeVars>>
notMap == <<dedupVars, tempVars, edgeVars, tableVars, resolverVars, testerVars, runVars, storeVars, backedVars, scopeVars>>
notRun == <<dedupVars, tempVars, edgeVars, tableVars, resolverVars, testerVars, mapVars, storeVars, backedVars, scopeVars>>
notStore == <<dedupVars, tempVars, edgeVars, tableVars, resolverVars, testerVars, mapVars, runVars, backedVars, scopeVars>>
notBacked == <<dedupVars, tempVars, edgeVars, tableVars, resolverVars, testerVars, mapVars, runVars, storeVars, scopeVars>>
notScope == <<dedupVars, tempVars, edgeVars, tableVars, resolverVars, testerVars, mapVars, runVars, storeVars, backedVars>>

None == "None"

\* The empty dict {}.
EmptyDict == [k \in {} |-> None]

\* dict.setdefault(k, v): the dict after the call.
SetDefault(d, k, v) ==
    IF k \in DOMAIN d THEN d
    ELSE [x \in DOMAIN d \cup {k} |-> IF x = k THEN v ELSE d[x]]

\* d[k] = v
SetItem(d, k, v) == [x \in DOMAIN d \cup {k} |-> IF x = k THEN v ELSE d[x]]

(***************************************************************************)
(* Query deduplication                                                     *)
(***************************************************************************)

\* Bounds of the model.
MaxQueries == 3
MaxTime == 4
BucketDuration == 2

\* A query text is a statement shape with the literal it carries.
QueryTexts ==
    { [shape |-> "s1", literal |-> 1],
      [shape |-> "s1", literal |-> 2],
      [shape |-> "s2", literal |-> 1] }

Timestamps == 1..MaxTime

\* get_query_fingerprint(query, platform, fast=True): the literal is
\* normalised away, the shape stays.
get_query_fingerprint(query) == query.shape

\* get_time_bucket(timestamp, bucket_duration): the start of the bucket.
get_time_bucket(timestamp, duration) == timestamp - (timestamp % duration)

\* datetime_to_ts_millis
datetime_to_ts_millis(dt) == dt * 1000

\* The column lineage the parser derives from a query text, as
\* (downstream column, upstream column) pairs.
ColumnLineage(query) ==
    IF query.shape = "s1"
    THEN (IF query.literal = 1 THEN {<<"x", "a">>} ELSE {<<"x", "b">>})
    ELSE {<<"y", "a">>}

\* ObservedQuery(query=..., timestamp=..., query_hash=...), usage_multiplier
\* left at its default.
ObservedQuery(query, timestamp) ==
    [query |-> query, timestamp |-> timestamp,
     query_hash |-> None, usage_multiplier |-> 1]

TimeBucketIsTimestamp(query) == datetime_to_ts_millis(query.timestamp)

TimeBucketIsOneBucket(query) == 0

\* The time bucket of one entry (lines 273-277); an absent timestamp is
\* falsy and is written 0.
TimeBucket(query) ==
    IF query.timestamp # 0
    THEN datetime_to_ts_millis(get_time_bucket(query.timestamp, BucketDuration))
    ELSE 0

MergeKeepCount(observed_query, query) ==
    [observed_query EXCEPT !.timestamp = query.timestamp]

MergeOverwrite(observed_query, query) ==
    [query EXCEPT !.usage_multiplier = observed_query.usage_multiplier + 1]

\* The update of the representative already held for the key (lines 289-291).
MergeObserved(observed_query, query) ==
    [observed_query EXCEPT !.usage_multiplier = @ + 1,
                           !.timestamp = query.timestamp]

\* One iteration of the loop of deduplicate_queries over entry q.
DedupOne(deduped, q) ==
    LET time_bucket == TimeBucket(q)
        query == [q EXCEPT !.query_hash = get_query_fingerprint(q.query)]
        outer == SetDefault(deduped, query.query_hash, EmptyDict)
        query_instances == outer[query.query_hash]
        existed == time_bucket \in DOMAIN query_instances
        after == SetDefault(query_instances, time_bucket, query)
    IN  IF existed
        THEN SetItem(outer, query.query_hash,
                     SetItem(after, time_bucket,
                             MergeObserved(after[time_bucket], query)))
        ELSE SetItem(outer, query.query_hash, after)

LenCountsInstances(deduped) ==
    Cardinality(UNION {{<<h, b>> : b \in DOMAIN deduped[h]} : h \in DOMAIN deduped})

\* len(queries_deduped): the keys of the outer dict.
len_deduped(deduped) == Cardinality(DOMAIN deduped)

InitDedup ==
    /\ pc = "fetch"
    /\ queries = <<>>
    /\ queries_deduped = EmptyDict
    /\ i = 0
    /\ num_total_queries = 0
    /\ num_unique_queries = 0

\* queries.append(entry) for one row of the query log.
FetchEntry(query, timestamp) ==
    /\ pc = "fetch"
    /\ Len(queries) < MaxQueries
    /\ queries' = Append(queries, ObservedQuery(query, timestamp))
    /\ UNCHANGED <<pc, queries_deduped, i, num_total_queries, num_unique_queries, notDedup>>

\* The log is exhausted: report.num_total_queries, and deduplicate_queries starts.
StartDedup ==
    /\ pc = "fetch"
    /\ pc' = "dedup"
    /\ num_total_queries' = Len(queries)
    /\ queries_deduped' = EmptyDict
    /\ i' = 1
    /\ UNCHANGED <<queries, num_unique_queries, notDedup>>

DedupStep ==
    /\ pc = "dedup"
    /\ i <= Len(queries)
    /\ queries_deduped' = DedupOne(queries_deduped, queries[i])
    /\ i' = i + 1
    /\ UNCHANGED <<pc, queries, num_total_queries, num_unique_queries, notDedup>>

\* deduplicate_queries returns: report.num_unique_queries.
FinishDedup ==
    /\ pc = "dedup"
    /\ i > Len(queries)
    /\ pc' = "done"
    /\ num_unique_queries' = len_deduped(queries_deduped)
    /\ UNCHANGED <<queries, queries_deduped, i, num_total_queries, notDedup>>

NextDedup ==
    \/ \E query \in QueryTexts, timestamp \in Timestamps : FetchEntry(query, timestamp)
    \/ StartDedup
    \/ DedupStep
    \/ FinishDedup


(***************************************************************************)
(* Properties of the deduplication                                         *)
(***************************************************************************)

\* The dedup key (time_bucket, query_fingerprint) of an entry.
DedupKey(q) == <<TimeBucket(q), get_query_fingerprint(q.query)>>

\* The entries of the log the loop has been through.
Observed == IF pc = "fetch" THEN {} ELSE 1..(i - 1)

ObservedWithKey(key) == {k \in Observed : DedupKey(queries[k]) = key}

\* The keys that hold a representative.
HeldKeys ==
    UNION {{<<b, h>> : b \in DOMAIN queries_deduped[h]} : h \in DOMAIN queries_deduped}

Representative(key) == queries_deduped[key[2]][key[1]]

MaxOf(S) == CHOOSE x \in S : \A y \in S : y <= x

MinOf(S) == CHOOSE x \in S : \A y \in S : x <= y

\* C1: every observed dedup key has exactly one representative, whose own key
\* is that key and whose usage_multiplier is the number of observations added
\* with the key.
C1_UsageMultiplierCountsObservations ==
    /\ \A k \in Observed : DedupKey(queries[k]) \in HeldKeys
    /\ \A key \in HeldKeys :
        /\ ObservedWithKey(key) # {}
        /\ Representative(key).query_hash = key[2]
        /\ TimeBucket(Representative(key)) = key[1]
        /\ Representative(key).usage_multiplier = Cardinality(ObservedWithKey(key))

\* The same query shape added three times within one bucket, another key beside it.
C1_Witness ==
    /\ pc = "done"
    /\ \E key \in HeldKeys : Representative(key).usage_multiplier >= 2
    /\ Cardinality(HeldKeys) >= 2

\* C2 (as claimed): the representative's timestamp is the maximum of the
\* timestamps observed with its key, in whatever order they arrived.
C2_TimestampIsMaximum ==
    \A key \in HeldKeys :
        Representative(key).timestamp =
            MaxOf({queries[k].timestamp : k \in ObservedWithKey(key)})

SameTextAndBucket(a, b) ==
    /\ a.query = b.query
    /\ get_time_bucket(a.timestamp, BucketDuration) = get_time_bucket(b.timestamp, BucketDuration)

\* The keys an entry falls under: those of its fingerprint whose
\* representative lies in its time bucket.
KeysOf(q) ==
    {key \in HeldKeys :
        /\ key[2] = get_query_fingerprint(q.query)
        /\ get_time_bucket(Representative(key).timestamp, BucketDuration)
             = get_time_bucket(q.timestamp, BucketDuration)}

UsageAsset(query) == "a"

OperationAsset(query) == IF query.shape = "s1" THEN "x" ELSE "y"

RECURSIVE SumOfMultipliers(_)
SumOfMultipliers(keys) ==
    IF keys = {} THEN 0
    ELSE LET key == CHOOSE k \in keys : TRUE
         IN  Representative(key).usage_multiplier + SumOfMultipliers(keys \ {key})

\* The usage counter of (asset, bucket) after the loop of lines 242-251 has
\* given every representative to aggregator.add: a representative counts
\* with its usage_multiplier.
UsageCounter(asset, bucket) ==
    SumOfMultipliers({key \in HeldKeys :
                        key[1] = bucket /\ UsageAsset(Representative(key).query) = asset})

\* The operation counter of (asset, bucket) after that loop: one operation
\* for each query given to aggregator.add (the comment of lines 259-263).
OperationCounter(asset, bucket) ==
    Cardinality({key \in HeldKeys :
                    key[1] = bucket /\ OperationAsset(Representative(key).query) = asset})

Buckets == {TimeBucket(ObservedQuery(q, t)) : q \in QueryTexts, t \in Timestamps}

\* C25: the usage counter and the operation counter of (asset, bucket) are
\* the number of observed executions that touch the asset in the bucket.
C25_CountersCountEveryObservation ==
    pc = "done" =>
        \A bucket \in Buckets :
            /\ \A asset \in {UsageAsset(q) : q \in QueryTexts} :
                 UsageCounter(asset, bucket) =
                    Cardinality({k \in Observed : /\ TimeBucket(queries[k]) = bucket
                                                  /\ UsageAsset(queries[k].query) = asset})
            /\ \A asset \in {OperationAsset(q) : q \in QueryTexts} :
                 OperationCounter(asset, bucket) =
                    Cardinality({k \in Observed : /\ TimeBucket(queries[k]) = bucket
                                                  /\ OperationAsset(queries[k].query) = asset})

\* C26 (as claimed): num_total_queries is the number of observed queries
\* read, num_unique_queries the number of dedup keys (time_bucket,
\* fingerprint), and the second is at most the first.
C26_UniqueCountsDedupKeys ==
    /\ pc # "fetch" => num_total_queries = Len(queries)
    /\ pc = "done" => /\ num_unique_queries = Cardinality(HeldKeys)
                      /\ num_unique_queries <= num_total_queries

\* C26 (amended): num_total_queries is the number of observed queries read;
\* num_unique_queries is the number of distinct fingerprints among them,
\* which is at most the number of dedup keys, which is at most
\* num_total_queries.
C26_UniqueCountsFingerprints ==
    /\ pc # "fetch" => num_total_queries = Len(queries)
    /\ pc = "done" =>
        /\ num_unique_queries =
              Cardinality({get_query_fingerprint(queries[k].query) : k \in DOMAIN queries})
        /\ num_unique_queries <= Cardinality(HeldKeys)
        /\ Cardinality(HeldKeys) <= num_total_queries

\* One fingerprint observed twice in a bucket and once in another: one
\* unique query, two representatives, three queries.
C26_Witness ==
    /\ pc = "done"
    /\ num_unique_queries = 1
    /\ Cardinality(HeldKeys) = 2
    /\ num_total_queries = 3

\* deduplicate_queries over a whole log.
RECURSIVE DedupAll(_, _)
DedupAll(deduped, log) ==
    IF log = <<>> THEN deduped
    ELSE DedupAll(DedupOne(deduped, Head(log)), Tail(log))

\* The log with the entries k and k + 1 in the other order.
Swapped(log, k) ==
    [x \in DOMAIN log |-> IF x = k THEN log[k + 1] ELSE IF x = k + 1 THEN log[k] ELSE log[x]]

\* Two entries have different (time_bucket, fingerprint) keys.
DifferentKeys(a, b) ==
    \/ get_query_fingerprint(a.query) # get_query_fingerprint(b.query)
    \/ get_time_bucket(a.timestamp, BucketDuration) # get_time_bucket(b.timestamp, BucketDuration)

RECURSIVE FirstOccurrences(_)
\* The distinct values of a sequence in the order they first occur: the
\* order in which a dict iterates over its keys.
FirstOccurrences(q) ==
    IF q = <<>> THEN <<>>
    ELSE LET before == FirstOccurrences(SubSeq(q, 1, Len(q) - 1))
         IN  IF \E k \in DOMAIN before : before[k] = q[Len(q)]
             THEN before ELSE Append(before, q[Len(q)])

\* The keys of the dedup map of a log in the order the loop of lines 244-251
\* goes through them: the fingerprints as inserted, and under each its time
\* buckets as inserted.
RepresentativeOrder(log) ==
    LET hashes == FirstOccurrences([k \in DOMAIN log |-> get_query_fingerprint(log[k].query)])
        buckets(h) ==
            FirstOccurrences(
                [k \in DOMAIN SelectSeq(log, LAMBDA q : get_query_fingerprint(q.query) = h) |->
                    TimeBucket(SelectSeq(log, LAMBDA q : get_query_fingerprint(q.query) = h)[k])])
        RECURSIVE flat(_)
        flat(k) == IF k > Len(hashes) THEN <<>>
                   ELSE [b \in DOMAIN buckets(hashes[k]) |-> <<buckets(hashes[k])[b], hashes[k]>>]
                            \o flat(k + 1)
    IN  flat(1)

RECURSIVE AggregateAll(_, _, _)
\* The lineage map and the usage counters of the aggregator after the
\* representatives of a dedup map were added in an order.
AggregateAll(agg, deduped, keys) ==
    IF keys = <<>> THEN agg
    ELSE LET key == Head(keys)
             query == deduped[key[2]][key[1]]
             asset == UsageAsset(query.query)
             written == OperationAsset(query.query)
             counter == <<asset, key[1]>>
         IN  AggregateAll(
                [lineage |-> SetItem(agg.lineage, written,
                                     (IF written \in DOMAIN agg.lineage
                                      THEN agg.lineage[written] ELSE {}) \cup {asset}),
                 usage |-> SetItem(agg.usage, counter,
                                   (IF counter \in DOMAIN agg.usage THEN agg.usage[counter] ELSE 0)
                                      + query.usage_multiplier)],
                deduped, Tail(keys))

Aggregate(log) ==
    AggregateAll([lineage |-> EmptyDict, usage |-> EmptyDict], DedupAll(EmptyDict, log),
                 RepresentativeOrder(log))

\* C31: two observations that follow each other in the log and have
\* different (time_bucket, fingerprint) keys can be added in either order:
\* the dedup map, the lineage map and the usage counters end the same.
C31_OrderIndependentAcrossKeys ==
    pc = "done" =>
        \A k \in 1..(Len(queries) - 1) :
            DifferentKeys(queries[k], queries[k + 1])
                => /\ DedupAll(EmptyDict, Swapped(queries, k)) = queries_deduped
                   /\ Aggregate(Swapped(queries, k)) = Aggregate(queries)

\* Three observations: the first two under one key at different times,
\* where the order shows in the map, the last two under different keys.
C31_Witness ==
    /\ pc = "done"
    /\ Len(queries) = 3
    /\ ~DifferentKeys(queries[1], queries[2])
    /\ DedupAll(EmptyDict, Swapped(queries, 1)) # queries_deduped
    /\ DifferentKeys(queries[2], queries[3])
    /\ get_query_fingerprint(queries[2].query) = get_query_fingerprint(queries[3].query)
    /\ DedupAll(EmptyDict, Swapped(queries, 2)) = queries_deduped

(***************************************************************************)
(* Temp-table resolution of BigqueryLineageExtractor                       *)
(***************************************************************************)

\* Bounds of the model.
MaxEdges == 3
MaxDepth == 4

\* Dataset names are sequences of characters (startswith is computed).
Dataset == <<"d", "s">>
TempDataset == <<"_", "t">>

\* config.temp_table_dataset_prefix
temp_table_dataset_prefix == <<"_">>

BigqueryTableIdentifier(project_id, dataset, table) ==
    [project_id |-> project_id, dataset |-> dataset, table |-> table]

\* The tables of the model: A, B, C are regular tables, T1 and T2 live in a
\* dataset whose name starts with the temp prefix.
TableA == BigqueryTableIdentifier("p", Dataset, "a")
TableB == BigqueryTableIdentifier("p", Dataset, "b")
TableC == BigqueryTableIdentifier("p", Dataset, "c")
TableT1 == BigqueryTableIdentifier("p", TempDataset, "t1")
TableT2 == BigqueryTableIdentifier("p", TempDataset, "t2")

TableRefs == {TableA, TableB, TableC, TableT1, TableT2}

\* BigQueryTableRef.__str__: projects/<p>/datasets/<d>/tables/<t>, kept as its parts.
RefStr(ref) == <<"projects", ref.project_id, "datasets", ref.dataset, "tables", ref.table>>

\* BigQueryTableRef.from_string_name
from_string_name(ref) ==
    IF ref[1] # "projects" \/ ref[3] # "datasets" \/ ref[5] # "tables"
    THEN None
    ELSE BigqueryTableIdentifier(ref[2], ref[4], ref[6])

\* str.startswith
StartsWith(str, prefix) ==
    /\ Len(prefix) <= Len(str)
    /\ SubSeq(str, 1, Len(prefix)) = prefix

IsTemporaryExactName(ref, prefix) == ref.dataset = prefix

\* BigQueryTableRef.is_temporary_table
is_temporary_table(ref, prefix) == StartsWith(ref.dataset, prefix)

\* The (destination, referenced) pairs a query event can add to the lineage
\* map: _create_lineage_map never adds a table to its own entry. A, T1 and T2
\* are written from any other table, B from C.
PossibleEdges ==
    {e \in {TableA, TableT1, TableT2} \X TableRefs : e[1] # e[2]} \cup {<<TableB, TableC>>}

\* The lineage maps _create_lineage_map can build from at most MaxEdges pairs.
LineageMaps ==
    { [d \in {RefStr(e[1]) : e \in E} |-> {RefStr(e[2]) : e \in {x \in E : RefStr(x[1]) = d}}] :
        E \in {F \in SUBSET PossibleEdges : Cardinality(F) \in 1..MaxEdges} }

\* self.lineage_metadata before _compute_bigquery_lineage has run.
NotComputed == [x \in {<<None>>} |-> {}]

\* get_upstream_lineage_info returning None.
ReturnedNone == [value |-> "None", bq_table |-> <<>>, upstreams |-> {}]

\* get_upstream_lineage_info returning the upstream lineage of bq_table.
ReturnedLineage(bq_table, upstreams) ==
    [value |-> "UpstreamLineage", bq_table |-> bq_table, upstreams |-> upstreams]

Frame(bq_table, refs) == [bq_table |-> bq_table, todo |-> refs, upstreams |-> {}]

Top == stack[Len(stack)]

ReplaceTop(frame) == [stack EXCEPT ![Len(stack)] = frame]

InitTemp ==
    /\ lineage_metadata = NotComputed
    /\ stack = <<>>
    /\ tables_seen = <<>>
    /\ skipped = {}
    /\ returned = ReturnedNone
    /\ report_failures = {}
    /\ report_upstream_lineage = EmptyDict
    /\ upstream_lineage_in_report \in BOOLEAN

\* _compute_bigquery_lineage, run by the first get_upstream_lineage_info:
\* the audit log was read and gives the lineage map.
ComputeLineage(lineage_map) ==
    /\ lineage_metadata = NotComputed
    /\ lineage_metadata' = lineage_map
    /\ UNCHANGED <<stack, tables_seen, skipped, returned, report_failures,
                   report_upstream_lineage, upstream_lineage_in_report, notTemp>>

\* _compute_bigquery_lineage when reading the log raises: the error is
\* reported as a failure and the lineage map is empty.
ComputeLineageFails ==
    /\ lineage_metadata = NotComputed
    /\ lineage_metadata' = EmptyDict
    /\ report_failures' = report_failures \cup {"lineage-gcp-logs"}
    /\ UNCHANGED <<stack, tables_seen, skipped, returned,
                   report_upstream_lineage, upstream_lineage_in_report, notTemp>>

TablesSeenIsSharedDefault(seen) == seen

\* tables_seen=[] (line 420): the list of one call of get_upstream_tables
\* from get_upstream_lineage_info, new at the call and gone when it returns.
call_tables_seen(seen) == <<>>

\* get_upstream_lineage_info(dataset_name) for a table the map has:
\* get_upstream_tables(str(bq_table), tables_seen=[]) is entered.
StartResolve(bq_table) ==
    /\ lineage_metadata # NotComputed
    /\ stack = <<>>
    /\ RefStr(bq_table) \in DOMAIN lineage_metadata
    /\ stack' = <<Frame(RefStr(bq_table), lineage_metadata[RefStr(bq_table)])>>
    /\ tables_seen' = call_tables_seen(tables_seen)
    /\ skipped' = {}
    /\ returned' = ReturnedNone
    /\ UNCHANGED <<lineage_metadata, report_failures, report_upstream_lineage,
                   upstream_lineage_in_report, notTemp>>

\* get_upstream_lineage_info(dataset_name) for a table the map does not have.
ReturnNoLineage(bq_table) ==
    /\ lineage_metadata # NotComputed
    /\ stack = <<>>
    /\ RefStr(bq_table) \notin DOMAIN lineage_metadata
    /\ returned' = ReturnedNone
    /\ tables_seen' = <<>>
    /\ skipped' = {}
    /\ UNCHANGED <<lineage_metadata, stack, report_failures, report_upstream_lineage,
                   upstream_lineage_in_report, notTemp>>

InSeq(x, seq) == \E k \in 1..Len(seq) : seq[k] = x

SeenCheckMissing(ref_table, seen) == FALSE

\* ref_table in tables_seen (line 394)
AlreadySeen(ref_table, seen) == InSeq(ref_table, seen)

\* Loop iteration on a regular table: upstreams.add(upstream_table).
IterRegular(ref_table) ==
    /\ stack # <<>>
    /\ ref_table \in Top.todo
    /\ ~is_temporary_table(from_string_name(ref_table), temp_table_dataset_prefix)
    /\ stack' = ReplaceTop([Top EXCEPT !.todo = @ \ {ref_table},
                                       !.upstreams = @ \cup {from_string_name(ref_table)}])
    /\ UNCHANGED <<lineage_metadata, tables_seen, skipped, returned, report_failures,
                   report_upstream_lineage, upstream_lineage_in_report, notTemp>>

IterSeenReportsFailure(ref_table) ==
    /\ stack # <<>>
    /\ ref_table \in Top.todo
    /\ is_temporary_table(from_string_name(ref_table), temp_table_dataset_prefix)
    /\ InSeq(ref_table, tables_seen)
    /\ skipped' = skipped \cup {ref_table}
    /\ report_failures' = report_failures \cup {"lineage-cycle"}
    /\ stack' = ReplaceTop([Top EXCEPT !.todo = @ \ {ref_table}])
    /\ UNCHANGED <<lineage_metadata, tables_seen, returned,
                   report_upstream_lineage, upstream_lineage_in_report, notTemp>>

\* Loop iteration on a temp table seen already: logged at debug level, skipped.
IterSeen(ref_table) ==
    /\ stack # <<>>
    /\ ref_table \in Top.todo
    /\ is_temporary_table(from_string_name(ref_table), temp_table_dataset_prefix)
    /\ AlreadySeen(ref_table, tables_seen)
    /\ skipped' = skipped \cup {ref_table}
    /\ stack' = ReplaceTop([Top EXCEPT !.todo = @ \ {ref_table}])
    /\ UNCHANGED <<lineage_metadata, tables_seen, returned, report_failures,
                   report_upstream_lineage, upstream_lineage_in_report, notTemp>>

\* Loop iteration on a new temp table with an entry in the map: the call recurses.
IterRecurse(ref_table) ==
    /\ stack # <<>>
    /\ ref_table \in Top.todo
    /\ is_temporary_table(from_string_name(ref_table), temp_table_dataset_prefix)
    /\ ~AlreadySeen(ref_table, tables_seen)
    /\ ref_table \in DOMAIN lineage_metadata
    /\ Len(stack) < MaxDepth
    /\ tables_seen' = Append(tables_seen, ref_table)
    /\ stack' = Append(ReplaceTop([Top EXCEPT !.todo = @ \ {ref_table}]),
                       Frame(ref_table, lineage_metadata[ref_table]))
    /\ UNCHANGED <<lineage_metadata, skipped, returned, report_failures,
                   report_upstream_lineage, upstream_lineage_in_report, notTemp>>

\* Loop iteration on a new temp table without an entry: it contributes nothing.
IterNoEntry(ref_table) ==
    /\ stack # <<>>
    /\ ref_table \in Top.todo
    /\ is_temporary_table(from_string_name(ref_table), temp_table_dataset_prefix)
    /\ ~AlreadySeen(ref_table, tables_seen)
    /\ ref_table \notin DOMAIN lineage_metadata
    /\ tables_seen' = Append(tables_seen, ref_table)
    /\ stack' = ReplaceTop([Top EXCEPT !.todo = @ \ {ref_table}])
    /\ UNCHANGED <<lineage_metadata, skipped, returned, report_failures,
                   report_upstream_lineage, upstream_lineage_in_report, notTemp>>

ReturnInnerDropsResult ==
    /\ Len(stack) > 1
    /\ Top.todo = {}
    /\ stack' = SubSeq(stack, 1, Len(stack) - 1)
    /\ UNCHANGED <<lineage_metadata, tables_seen, skipped, returned, report_failures,
                   report_upstream_lineage, upstream_lineage_in_report, notTemp>>

\* A recursive call returns: upstreams = upstreams.union(<its result>).
ReturnInner ==
    /\ Len(stack) > 1
    /\ Top.todo = {}
    /\ stack' = [k \in 1..(Len(stack) - 1) |->
                    IF k = Len(stack) - 1
                    THEN [stack[k] EXCEPT !.upstreams = @ \cup Top.upstreams]
                    ELSE stack[k]]
    /\ UNCHANGED <<lineage_metadata, tables_seen, skipped, returned, report_failures,
                   report_upstream_lineage, upstream_lineage_in_report, notTemp>>

\* The outermost call returns and get_upstream_lineage_info builds the
\* upstream list (lines 417-447): the upstreams go to the report when the
\* config asks for it, and None is returned when there is none.
ReturnOuter ==
    /\ Len(stack) = 1
    /\ Top.todo = {}
    /\ stack' = <<>>
    /\ tables_seen' = call_tables_seen(tables_seen)
    /\ skipped' = {}
    /\ returned' = IF Top.upstreams = {} THEN ReturnedNone
                   ELSE ReturnedLineage(Top.bq_table, Top.upstreams)
    /\ report_upstream_lineage' =
         IF upstream_lineage_in_report /\ Top.upstreams # {}
         THEN SetItem(report_upstream_lineage, Top.bq_table,
                      (IF Top.bq_table \in DOMAIN report_upstream_lineage
                       THEN report_upstream_lineage[Top.bq_table] ELSE {})
                          \cup {RefStr(u) : u \in Top.upstreams})
         ELSE report_upstream_lineage
    /\ UNCHANGED <<lineage_metadata, report_failures, upstream_lineage_in_report, notTemp>>

NextTemp ==
    \/ \E lineage_map \in LineageMaps : ComputeLineage(lineage_map)
    \/ ComputeLineageFails
    \/ \E bq_table \in TableRefs : StartResolve(bq_table)
    \/ \E bq_table \in TableRefs : ReturnNoLineage(bq_table)
    \/ \E ref_table \in {RefStr(t) : t \in TableRefs} : IterRegular(ref_table)
    \/ \E ref_table \in {RefStr(t) : t \in TableRefs} : IterSeen(ref_table)
    \/ \E ref_table \in {RefStr(t) : t \in TableRefs} : IterRecurse(ref_table)
    \/ \E ref_table \in {RefStr(t) : t \in TableRefs} : IterNoEntry(ref_table)
    \/ ReturnInner
    \/ ReturnOuter


(***************************************************************************)
(* Properties of the temp-table resolution                                 *)
(***************************************************************************)

\* The temp tables of the model, by name.
IsTemp(ref_table) == ref_table \in {RefStr(TableT1), RefStr(TableT2)}

\* The tables reached from the set S of references by going on through the
\* temp tables among them, at most n times.
RECURSIVE ThroughTemps(_, _, _)
ThroughTemps(lineage_map, S, n) ==
    IF n = 0 THEN S
    ELSE ThroughTemps(lineage_map,
                      S \cup UNION {lineage_map[t] : t \in {x \in S : IsTemp(x) /\ x \in DOMAIN lineage_map}},
                      n - 1)

\* The regular tables bq_table depends on, directly or through temp tables only.
RegularUpstreams(lineage_map, bq_table) ==
    {from_string_name(r) :
        r \in {x \in ThroughTemps(lineage_map, lineage_map[bq_table], Cardinality(TableRefs)) : ~IsTemp(x)}}

\* C4: resolving the upstreams of a table gives exactly the regular tables it
\* reaches through chains of temp tables: {B} for A <- temp1 <- ... <- B, and
\* the union over the branches when a temp table has several upstreams.
C4_ResolvesThroughTempChains ==
    /\ (Len(stack) = 1 /\ Top.todo = {}) =>
           Top.upstreams = RegularUpstreams(lineage_metadata, Top.bq_table)
    /\ returned.value = "UpstreamLineage" =>
           returned.upstreams = RegularUpstreams(lineage_metadata, returned.bq_table)

\* The chain A <- T1 <- T2 <- B has been resolved to {B}.
C4_Witness ==
    /\ returned = ReturnedLineage(RefStr(TableA), {TableB})
    /\ lineage_metadata[RefStr(TableA)] = {RefStr(TableT1)}
    /\ RefStr(TableT1) \in DOMAIN lineage_metadata
    /\ lineage_metadata[RefStr(TableT1)] = {RefStr(TableT2)}
    /\ RefStr(TableT2) \in DOMAIN lineage_metadata
    /\ lineage_metadata[RefStr(TableT2)] = {RefStr(TableB)}

NoDuplicates(seq) == \A j, k \in 1..Len(seq) : seq[j] = seq[k] => j = k

\* C5: every resolution that has started returns, whatever the lineage map
\* (cycles of temp tables included), and no temp table is entered twice in
\* one resolution.
C5_ResolutionTerminates ==
    /\ [](NoDuplicates(tables_seen) /\ Len(stack) <= Len(tables_seen) + 1)
    /\ (stack # <<>>) ~> (stack = <<>>)

\* The resolution has met the cycle T1 <- T2 <- T1 and skipped a table seen already.
C5_Witness ==
    /\ skipped # {}
    /\ RefStr(TableT1) \in DOMAIN lineage_metadata
    /\ RefStr(TableT2) \in DOMAIN lineage_metadata
    /\ RefStr(TableT2) \in lineage_metadata[RefStr(TableT1)]
    /\ RefStr(TableT1) \in lineage_metadata[RefStr(TableT2)]

\* C6 (as claimed): a temp table met again in the current resolution is
\* recorded as a failure of the run's report.
C6_CycleIsReported == skipped # {} => report_failures # {}

\* C6 (amended): the step that meets a temp table seen already only logs it:
\* the report is as it was, and the resolution goes on in the same call.
C6_CycleIsOnlyLogged ==
    [][(skipped' # skipped /\ skipped' # {}) =>
          /\ report_failures' = report_failures
          /\ report_upstream_lineage' = report_upstream_lineage
          /\ Len(stack') = Len(stack)
          /\ tables_seen' = tables_seen]_vars

\* A resolution that met a table seen already has returned to its caller's frame.
C6_Witness ==
    /\ skipped # {}
    /\ Len(stack) = 1
    /\ Top.todo = {}
    /\ report_failures = {}

\* C7: no temp table is among the upstreams a resolution collects, returns
\* or writes to the report.
C7_NoTempTableUpstream ==
    /\ \A k \in 1..Len(stack) : \A u \in stack[k].upstreams : ~IsTemp(RefStr(u))
    /\ \A u \in returned.upstreams : ~IsTemp(RefStr(u))
    /\ \A t \in DOMAIN report_upstream_lineage :
          \A u \in report_upstream_lineage[t] : ~IsTemp(u)

\* A's only upstream is the temp table T1, which has no entry: the
\* resolution is about to return no upstream at all.
C7_Witness ==
    /\ Len(stack) = 1
    /\ Top.bq_table = RefStr(TableA)
    /\ Top.todo = {}
    /\ Top.upstreams = {}
    /\ tables_seen = <<RefStr(TableT1)>>
    /\ RefStr(TableT1) \notin DOMAIN lineage_metadata

\* C34: the upstreams a resolution returns for a table never include the
\* table itself, also when the table is reached again through a temp table.
C34_NoTableIsItsOwnUpstream ==
    returned.value = "UpstreamLineage" =>
        from_string_name(returned.bq_table) \notin returned.upstreams

\* The upstreams the report holds for bq_table from the resolutions before.
ResolvedBefore(bq_table) == report_upstream_lineage[bq_table]

\* C36: the visited list belongs to one resolution. Every resolution starts
\* with an empty list, and a resolution of a table that was resolved before,
\* whatever was resolved in between, ends with the upstreams found before.
C36_VisitedSetScopedToOneResolution ==
    /\ [][(stack = <<>> /\ stack' # <<>>) => tables_seen' = <<>>]_vars
    /\ []((Len(stack) = 1 /\ Top.todo = {} /\ Top.bq_table \in DOMAIN report_upstream_lineage) =>
             {RefStr(u) : u \in Top.upstreams} = ResolvedBefore(Top.bq_table))

\* A <- T1 <- B: A and T1 have been resolved and reported, and a second
\* resolution of A has gone through T1 again and is about to return {B}.
C36_Witness ==
    /\ upstream_lineage_in_report
    /\ Len(stack) = 1
    /\ Top.bq_table = RefStr(TableA)
    /\ Top.todo = {}
    /\ Top.upstreams = {TableB}
    /\ tables_seen = <<RefStr(TableT1)>>
    /\ RefStr(TableA) \in DOMAIN report_upstream_lineage
    /\ RefStr(TableT1) \in DOMAIN report_upstream_lineage


(***************************************************************************)
(* Column-aware temp-table resolution (bigquery_v2/lineage.py)             *)
(***************************************************************************)

\* Bound of the model.
MaxObservations == 3

\* column_confidence, in tenths.
Confidences == {6, 7, 8}

LineageEdgeColumnMapping(out_column, in_columns) ==
    [out_column |-> out_column, in_columns |-> in_columns]

LineageEdge(table, column_mapping, column_confidence) ==
    [table |-> table, column_mapping |-> column_mapping,
     column_confidence |-> column_confidence]

\* The column mappings a query can give for each (destination, upstream)
\* pair: A reads the temp table T1 and the table C, T1 reads the temp table
\* T2 and C, T2 reads C.
ColumnMappings(dest, upstream) ==
    IF dest = TableA /\ upstream = TableT1 THEN
        { {LineageEdgeColumnMapping("a1", {"t1"})},
          {LineageEdgeColumnMapping("a1", {"t1", "t2"})},
          {LineageEdgeColumnMapping("a2", {"t2"})} }
    ELSE IF dest = TableA /\ upstream = TableC THEN
        { {LineageEdgeColumnMapping("a1", {"c3"})}, {} }
    ELSE IF dest = TableT1 /\ upstream = TableC THEN
        { {LineageEdgeColumnMapping("t1", {"c1", "c2"}), LineageEdgeColumnMapping("t2", {"c2", "c3"})},
          {LineageEdgeColumnMapping("t2", {"c1"})} }
    ELSE IF dest = TableT1 /\ upstream = TableT2 THEN
        { {LineageEdgeColumnMapping("t1", {"u1"})} }
    ELSE IF dest = TableT2 /\ upstream = TableC THEN
        { {LineageEdgeColumnMapping("u1", {"c1"})}, {LineageEdgeColumnMapping("u1", {"c2"})} }
    ELSE {}

EdgePairs == {<<TableA, TableT1>>, <<TableA, TableC>>, <<TableT1, TableC>>,
              <<TableT1, TableT2>>, <<TableT2, TableC>>}

\* The lineage instances a query log can contain.
LineageInstances ==
    UNION { { [dest |-> RefStr(p[1]), edge |-> LineageEdge(RefStr(p[2]), m, c)] :
                m \in ColumnMappings(p[1], p[2]), c \in Confidences } : p \in EdgePairs }

OutColumns(column_mapping) == {m.out_column : m \in column_mapping}

InColumns(column_mapping, out_column) ==
    UNION {m.in_columns : m \in {x \in column_mapping : x.out_column = out_column}}

Minimum(a, b) == IF a <= b THEN a ELSE b

ConfidenceOfLatest(a, b) == b

\* The confidence of two merged instances.
MergedConfidence(a, b) == Minimum(a, b)

\* _merge_lineage_edge_columns(a, b): the upstream columns are unioned per
\* downstream column and the confidence is the minimum.
merge_lineage_edge_columns(a, b) ==
    LineageEdge(a.table,
                { LineageEdgeColumnMapping(c, InColumns(a.column_mapping, c)
                                              \cup InColumns(b.column_mapping, c)) :
                    c \in OutColumns(a.column_mapping) \cup OutColumns(b.column_mapping) },
                MergedConfidence(a.column_confidence, b.column_confidence))

ComposeKeepsTempColumns(edge, temp_upstream) ==
    LineageEdge(temp_upstream.table, edge.column_mapping,
                MergedConfidence(edge.column_confidence, temp_upstream.column_confidence))

\* The edge to the upstream of a temp table, seen from the table that reads
\* the temp table: every column of the temp table is replaced by the columns
\* it comes from.
ComposeThroughTemp(edge, temp_upstream) ==
    LineageEdge(temp_upstream.table,
                { LineageEdgeColumnMapping(m.out_column,
                      UNION {InColumns(temp_upstream.column_mapping, t) : t \in m.in_columns}) :
                    m \in edge.column_mapping },
                MergedConfidence(edge.column_confidence, temp_upstream.column_confidence))

RECURSIVE MergeAll(_)
MergeAll(edges) ==
    LET e == CHOOSE x \in edges : TRUE
    IN  IF edges \ {e} = {} THEN e
        ELSE merge_lineage_edge_columns(e, MergeAll(edges \ {e}))

\* get_upstream_tables(bq_table, lineage_metadata): the resolved edges by
\* upstream table. A temp table on the way to the current one is not entered again.
RECURSIVE get_upstream_edges(_, _, _)
get_upstream_edges(metadata, bq_table, seen) ==
    LET direct == metadata[bq_table]
        regular == {u \in DOMAIN direct :
                      ~is_temporary_table(from_string_name(u), temp_table_dataset_prefix)}
        temp == {u \in DOMAIN direct \ regular : u \notin seen /\ u \in DOMAIN metadata}
        through == [t \in temp |-> get_upstream_edges(metadata, t, seen \cup {t})]
        candidates(r) ==
            {direct[u] : u \in regular \cap {r}}
                \cup {ComposeThroughTemp(direct[t], through[t][r]) :
                        t \in {x \in temp : r \in DOMAIN through[x]}}
        targets == regular \cup UNION {DOMAIN through[t] : t \in temp}
    IN  [r \in targets |-> MergeAll(candidates(r))]

NotResolved == [bq_table |-> <<>>, upstreams |-> EmptyDict]

InitEdge ==
    /\ observed_edges = {}
    /\ edge_metadata = EmptyDict
    /\ resolved = NotResolved

\* One lineage instance goes into the lineage map: it is merged into the
\* edge held for the same (destination, upstream) pair.
ObserveLineage(instance) ==
    /\ Cardinality(observed_edges) < MaxObservations
    /\ instance \notin observed_edges
    /\ observed_edges' = observed_edges \cup {instance}
    /\ LET held == IF instance.dest \in DOMAIN edge_metadata
                   THEN edge_metadata[instance.dest] ELSE EmptyDict
           edge == IF instance.edge.table \in DOMAIN held
                   THEN merge_lineage_edge_columns(held[instance.edge.table], instance.edge)
                   ELSE instance.edge
       IN  edge_metadata' = SetItem(edge_metadata, instance.dest,
                                    SetItem(held, instance.edge.table, edge))
    /\ resolved' = NotResolved
    /\ UNCHANGED notEdge

\* get_upstream_tables(bq_table, lineage_metadata)
ResolveEdges(bq_table) ==
    /\ bq_table \in DOMAIN edge_metadata
    /\ resolved' = [bq_table |-> bq_table,
                    upstreams |-> get_upstream_edges(edge_metadata, bq_table, {})]
    /\ UNCHANGED <<observed_edges, edge_metadata, notEdge>>

NextEdge ==
    \/ \E instance \in LineageInstances : ObserveLineage(instance)
    \/ \E bq_table \in {RefStr(t) : t \in TableRefs} : ResolveEdges(bq_table)


\* ---- Properties of the column-aware resolution

\* The upstream tables of the instances observed for a destination.
ObservedFor(dest) == {x \in observed_edges : x.dest = dest}

TempHop(tables) ==
    tables \cup {x.edge.table : x \in {y \in observed_edges : y.dest \in tables /\ IsTemp(y.edge.table)}}

\* The table itself and the temp tables it reads through temp tables only.
TempReach(bq_table) == TempHop(TempHop(TempHop({bq_table})))

\* The instance leads to the regular table: it names it, or it names a temp
\* table that reads it through temp tables only.
LeadsTo(instance, upstream) ==
    \/ instance.edge.table = upstream
    \/ /\ IsTemp(instance.edge.table)
       /\ \E y \in observed_edges :
            y.dest \in TempReach(instance.edge.table) /\ y.edge.table = upstream

\* The observed instances that are merged into the resolved edge.
MergedInstances(bq_table, upstream) ==
    {x \in observed_edges : x.dest \in TempReach(bq_table) /\ LeadsTo(x, upstream)}

\* C8: the confidence of an edge is the minimum confidence of the instances
\* merged into it: of the repeated observations of one (destination,
\* upstream) pair in the lineage map, and of every hop of the temp-table
\* chains behind a resolved edge.
C8_ConfidenceIsMinimum ==
    /\ \A d \in DOMAIN edge_metadata : \A u \in DOMAIN edge_metadata[d] :
         edge_metadata[d][u].column_confidence =
            MinOf({x.edge.column_confidence : x \in {y \in ObservedFor(d) : y.edge.table = u}})
    /\ \A u \in DOMAIN resolved.upstreams :
         resolved.upstreams[u].column_confidence =
            MinOf({x.edge.column_confidence : x \in MergedInstances(resolved.bq_table, u)})

\* A is resolved to C through the temp table T1 only, the first hop at 0.8
\* and the second at 0.7, and the resolved edge has 0.7.
C8_Witness ==
    /\ resolved.bq_table = RefStr(TableA)
    /\ RefStr(TableC) \in DOMAIN resolved.upstreams
    /\ resolved.upstreams[RefStr(TableC)].column_confidence = 7
    /\ \A x \in ObservedFor(RefStr(TableA)) :
         x.edge.table = RefStr(TableT1) /\ x.edge.column_confidence = 8
    /\ ObservedFor(RefStr(TableA)) # {}
    /\ \A x \in ObservedFor(RefStr(TableT1)) :
         x.edge.table = RefStr(TableC) /\ x.edge.column_confidence = 7
    /\ ObservedFor(RefStr(TableT1)) # {}

\* The columns one step upstream of the given (table, column) nodes; only the
\* resolved table and temp tables are looked through.
ColumnHop(bq_table, nodes) ==
    nodes \cup
    UNION { UNION { { <<x.edge.table, c>> :
                        c \in UNION {m.in_columns : m \in {k \in x.edge.column_mapping : k.out_column = n[2]}} } :
                    x \in ObservedFor(n[1]) } :
            n \in {k \in nodes : k[1] = bq_table \/ IsTemp(k[1])} }

ColumnReach(bq_table, out_column) ==
    ColumnHop(bq_table, ColumnHop(bq_table, ColumnHop(bq_table, {<<bq_table, out_column>>})))

AllOutColumns == UNION {OutColumns(x.edge.column_mapping) : x \in LineageInstances}

\* C9: the resolved edge maps a column of the resolved table to the columns
\* of the upstream table that the observed column lineage reaches from it
\* through the temp tables: for A.a <- T.S and T.t <- B.U_t, the union of U_t
\* over t in S.
C9_ColumnMappingComposes ==
    \A u \in DOMAIN resolved.upstreams : \A a \in AllOutColumns :
        UNION {m.in_columns : m \in {k \in resolved.upstreams[u].column_mapping : k.out_column = a}}
            = {n[2] : n \in {k \in ColumnReach(resolved.bq_table, a) : k[1] = u}}

\* a1 <- {t1, t2} of T1, t1 <- {c1, c2} and t2 <- {c2, c3} of C, and nothing
\* else: the resolved edge to C has a1 <- {c1, c2, c3}.
C9_Witness ==
    /\ resolved.bq_table = RefStr(TableA)
    /\ {[dest |-> x.dest, table |-> x.edge.table, column_mapping |-> x.edge.column_mapping] :
            x \in observed_edges}
         = { [dest |-> RefStr(TableA), table |-> RefStr(TableT1),
              column_mapping |-> {LineageEdgeColumnMapping("a1", {"t1", "t2"})}],
             [dest |-> RefStr(TableT1), table |-> RefStr(TableC),
              column_mapping |-> {LineageEdgeColumnMapping("t1", {"c1", "c2"}),
                                  LineageEdgeColumnMapping("t2", {"c2", "c3"})}] }
    /\ DOMAIN resolved.upstreams = {RefStr(TableC)}
    /\ resolved.upstreams[RefStr(TableC)].column_mapping
         = {LineageEdgeColumnMapping("a1", {"c1", "c2", "c3"})}


(***************************************************************************)
(* Table-level lineage (utilities/sqlglot_lineage.py)                      *)
(***************************************************************************)

\* Bound of the model: the Table, DML and CTE nodes of a statement.
MaxNodes == 3

\* sqlglot.exp.Table: catalog and db are "" when the reference does not
\* have them.
Table(catalog, db, this) == [catalog |-> catalog, db |-> db, this |-> this]

Identifiers == {"base", "cte"}

TableNodes ==
    {Table("", "", n) : n \in Identifiers}
        \cup {Table("", "s", n) : n \in Identifiers}
        \cup {Table("c", "s", n) : n \in Identifiers}

\* The node types find_all is asked for when it collects the modified tables.
DmlTypes == {"Create", "Insert", "Update", "Delete", "Merge"}

\* The `this` of a DML node: a Table, or a Schema (a table with a column
\* list) around a Table.
DmlTargets ==
    {[type |-> "Table", table |-> n] : n \in TableNodes}
        \cup {[type |-> "Schema", table |-> n] : n \in TableNodes}

TableName(database, db_schema, table) ==
    [database |-> database, db_schema |-> db_schema, table |-> table]

\* `x or default`
Or(x, default) == IF x = "" THEN default ELSE x

\* TableName.from_sqlglot_table
from_sqlglot_table(table, default_db, default_schema) ==
    TableName(Or(table.catalog, default_db), Or(table.db, default_schema), table.this)

\* _raw_table_name
raw_table_name(table) == from_sqlglot_table(table, None, None)

CteNamesKept(stmt) == {}

\* The names of the CTEs of the statement, as unqualified tables.
CteNames(stmt) == {TableName(None, None, cte) : cte \in stmt.ctes}

CreatedKept(tables, modified) == tables

\* `- modified`: ignore references created in this query
ignore_created(tables, modified) == tables \ modified

\* _table_level_lineage: (tables, modified)
table_level_lineage(stmt) ==
    LET modified == {raw_table_name(expr.table) :
                        expr \in {e \in stmt.dml : e.type = "Table"}}
        tables == ignore_created({raw_table_name(table) : table \in stmt.tables},
                                 modified) \ CteNames(stmt)
    IN  [tables |-> tables, modified |-> modified]

EmptyStatement == [tables |-> {}, dml |-> {}, ctes |-> {}]

NodeCount(stmt) == Cardinality(stmt.tables) + Cardinality(stmt.dml) + Cardinality(stmt.ctes)

NoLineage == [computed |-> FALSE, tables |-> {}, modified |-> {}]

InitTable ==
    /\ statement = EmptyStatement
    /\ table_lineage = NoLineage

\* _parse_statement: the statement has a reference to a table.
ParseTable(table) ==
    /\ ~table_lineage.computed
    /\ NodeCount(statement) < MaxNodes
    /\ table \notin statement.tables
    /\ statement' = [statement EXCEPT !.tables = @ \cup {table}]
    /\ UNCHANGED <<table_lineage, notTable>>

\* _parse_statement: the statement has a CREATE, INSERT, UPDATE, DELETE or
\* MERGE node; the table of its target is one of the Table nodes of the tree.
ParseDml(type, target) ==
    /\ ~table_lineage.computed
    /\ type \in DmlTypes
    /\ NodeCount(statement) + 1 < MaxNodes
    /\ target \notin statement.dml
    /\ statement' = [statement EXCEPT !.dml = @ \cup {target},
                                      !.tables = @ \cup {target.table}]
    /\ UNCHANGED <<table_lineage, notTable>>

\* _parse_statement: the statement defines a CTE.
ParseCte(alias) ==
    /\ ~table_lineage.computed
    /\ NodeCount(statement) < MaxNodes
    /\ alias \notin statement.ctes
    /\ statement' = [statement EXCEPT !.ctes = @ \cup {alias}]
    /\ UNCHANGED <<table_lineage, notTable>>

\* tables, modified = _table_level_lineage(statement, dialect)
TableLevelLineage ==
    /\ ~table_lineage.computed
    /\ LET result == table_level_lineage(statement)
       IN  table_lineage' = [computed |-> TRUE, tables |-> result.tables,
                             modified |-> result.modified]
    /\ UNCHANGED <<statement, notTable>>

NextTable ==
    \/ \E table \in TableNodes : ParseTable(table)
    \/ \E type \in DmlTypes, target \in DmlTargets : ParseDml(type, target)
    \/ \E alias \in Identifiers : ParseCte(alias)
    \/ TableLevelLineage

\* ---- Properties of the table-level lineage

\* The name a table reference is known by: an absent part is None.
ReferenceName(table) ==
    [database |-> IF table.catalog = "" THEN None ELSE table.catalog,
     db_schema |-> IF table.db = "" THEN None ELSE table.db,
     table |-> table.this]

AllReferences == {ReferenceName(table) : table \in statement.tables}

WriteTables == {ReferenceName(e.table) : e \in {x \in statement.dml : x.type = "Table"}}

IsCteName(name) ==
    name.database = None /\ name.db_schema = None /\ name.table \in statement.ctes

\* C10: a table is read by the statement exactly when the statement refers
\* to it, does not write it, and it is not the name of a CTE of the
\* statement; no CTE name is among the read tables.
C10_ReadTablesExcludeWritesAndCtes ==
    table_lineage.computed =>
        /\ \A name \in AllReferences \cup table_lineage.tables :
             name \in table_lineage.tables
                <=> (name \in AllReferences /\ name \notin WriteTables /\ ~IsCteName(name))
        /\ table_lineage.modified = WriteTables
        /\ \A cte \in statement.ctes :
             [database |-> None, db_schema |-> None, table |-> cte] \notin table_lineage.tables

\* WITH cte AS (SELECT * FROM base) SELECT * FROM cte: read_tables = {base}
C10_Witness ==
    /\ table_lineage.computed
    /\ statement = [tables |-> {Table("", "", "base"), Table("", "", "cte")},
                    dml |-> {}, ctes |-> {"cte"}]
    /\ table_lineage.tables = {[database |-> None, db_schema |-> None, table |-> "base"]}

\* C27: the read tables and the write tables of a statement are disjoint: a
\* table the statement writes is not among the tables it reads.
C27_ReadAndWriteTablesDisjoint ==
    table_lineage.computed =>
        /\ table_lineage.tables \cap table_lineage.modified = {}
        /\ \A name \in WriteTables : name \notin table_lineage.tables

\* A statement that writes base, refers to base and reads s.base.
C27_Witness ==
    /\ table_lineage.computed
    /\ statement.dml = {[type |-> "Table", table |-> Table("", "", "base")]}
    /\ statement.tables = {Table("", "", "base"), Table("", "s", "base")}
    /\ table_lineage.modified = {TableName(None, None, "base")}
    /\ table_lineage.tables = {TableName(None, "s", "base")}

(***************************************************************************)
(* SchemaResolver (utilities/sqlglot_lineage.py)                           *)
(***************************************************************************)

\* Bound of the model: the external lookups of a run.
MaxLookups == 2

\* Optional[SchemaInfo]: None next to the dicts from column path to type.
NoSchemaInfo == [x \in {<<None>>} |-> None]

\* `if schema_info:` - None and the empty dict are both false.
Truthy(schema_info) == schema_info # NoSchemaInfo /\ DOMAIN schema_info # {}

platform == "hive"

env == "PROD"

\* str.lower on the identifiers of the model.
Lower(name) == IF name = "Tbl" THEN "tbl" ELSE name

ResolverTables == {TableName(None, None, "tbl"), TableName(None, None, "Tbl")}

\* filter(None, [table.database, table.db_schema, table.table]): the parts
\* that "." joins.
NameParts(table) ==
    SelectSeq(<<table.database, table.db_schema, table.table>>, LAMBDA part : part # None)

\* make_dataset_urn_with_platform_instance
make_dataset_urn(table_name) == <<"urn:li:dataset", platform, table_name, env>>

\* SchemaResolver.get_urn_for_table
get_urn_for_table(table, lower) ==
    LET parts == NameParts(table)
        table_name == IF lower THEN [k \in DOMAIN parts |-> Lower(parts[k])] ELSE parts
    IN  make_dataset_urn(table_name)

Urns == {get_urn_for_table(t, l) : t \in ResolverTables, l \in BOOLEAN}

\* The segments of a v2 field path that are annotations, not names.
AnnotationSegments == {"[version=2.0]", "[type=int]"}

\* DatasetUrn._get_simple_field_path_from_v2_field_path
get_simple_field_path_from_v2_field_path(field_path) ==
    SelectSeq(field_path, LAMBDA segment : segment \notin AnnotationSegments)

\* The fields of the SchemaMetadata aspects of the model; a nativeDataType of
\* "" is an absent one.
SchemaFieldA == [fieldPath |-> <<"[version=2.0]", "[type=int]", "a">>, nativeDataType |-> "int"]
SchemaFieldB == [fieldPath |-> <<"b">>, nativeDataType |-> ""]

SchemaMetadataAspects == {{}, {SchemaFieldA}, {SchemaFieldA, SchemaFieldB}}

\* SchemaResolver._convert_schema_aspect_to_info
convert_schema_aspect_to_info(schema_metadata) ==
    [path \in {get_simple_field_path_from_v2_field_path(col.fieldPath) : col \in schema_metadata} |->
        LET col == CHOOSE c \in schema_metadata :
                       get_simple_field_path_from_v2_field_path(c.fieldPath) = path
        IN  IF col.nativeDataType = "" THEN "str" ELSE col.nativeDataType]

\* The SchemaInfo values a caller seeds.
SchemaInfos == {convert_schema_aspect_to_info(m) : m \in SchemaMetadataAspects}

\* What graph.get_aspect does: it returns an aspect, returns None, or raises
\* (the request fails or times out).
AspectOutcomes ==
    {[kind |-> "aspect", aspect |-> m] : m \in {{}, {SchemaFieldA}}}
        \cup {[kind |-> "None", aspect |-> {}], [kind |-> "raise", aspect |-> {}]}

\* What a call returns to its caller.
Returned(cache, log, schema_info) ==
    [raised |-> FALSE, cache |-> cache, log |-> log, schema_info |-> schema_info]

Raised(cache, log) ==
    [raised |-> TRUE, cache |-> cache, log |-> log, schema_info |-> NoSchemaInfo]

\* SchemaResolver._save_to_cache
save_to_cache(cache, urn, schema_info) == SetItem(cache, urn, schema_info)

NoneNotSaved(cache, urn) == cache

\* self._save_to_cache(urn, None)
SaveNone(cache, urn) == save_to_cache(cache, urn, NoSchemaInfo)

\* SchemaResolver._fetch_schema_info: None when there is no aspect.
fetch_schema_info(outcome) ==
    IF outcome.kind = "None" THEN NoSchemaInfo
    ELSE convert_schema_aspect_to_info(outcome.aspect)

\* SchemaResolver._resolve_schema_info; outcome is what graph.get_aspect
\* does if it is called.
resolve_schema_info(cache, log, has_graph, urn, outcome) ==
    IF urn \in DOMAIN cache THEN Returned(cache, log, cache[urn])
    ELSE IF has_graph
    THEN LET called == Append(log, [urn |-> urn, kind |-> outcome.kind])
             schema_info == fetch_schema_info(outcome)
         IN  IF outcome.kind = "raise" THEN Raised(cache, called)
             ELSE IF Truthy(schema_info)
             THEN Returned(save_to_cache(cache, urn, schema_info), called, schema_info)
             ELSE Returned(SaveNone(cache, urn), called, NoSchemaInfo)
    ELSE Returned(SaveNone(cache, urn), log, NoSchemaInfo)

RetriesAfterHit(schema_info) == FALSE

\* `if schema_info: return urn, schema_info` after the first lookup.
found(schema_info) == Truthy(schema_info)

\* SchemaResolver.resolve_table: (urn, schema_info), or the exception of the
\* lookup.
resolve_table(cache, log, has_graph, table, outcomes) ==
    LET urn == get_urn_for_table(table, FALSE)
        urn_lower == get_urn_for_table(table, TRUE)
        first == resolve_schema_info(cache, log, has_graph, urn, outcomes[1])
        second == resolve_schema_info(first.cache, first.log, has_graph, urn_lower, outcomes[2])
    IN  IF first.raised THEN [first EXCEPT !.schema_info = NoSchemaInfo] @@ [urn |-> <<>>]
        ELSE IF found(first.schema_info) THEN first @@ [urn |-> urn]
        ELSE IF urn_lower # urn
        THEN IF second.raised THEN second @@ [urn |-> <<>>]
             ELSE IF Truthy(second.schema_info) THEN second @@ [urn |-> urn_lower]
             ELSE [second EXCEPT !.schema_info = NoSchemaInfo] @@ [urn |-> urn_lower]
        ELSE [first EXCEPT !.schema_info = NoSchemaInfo] @@ [urn |-> urn_lower]

NotCalled == [call |-> "none", table |-> <<>>, raised |-> FALSE, urn |-> <<>>,
              schema_info |-> NoSchemaInfo]

InitResolver ==
    /\ graph \in BOOLEAN
    /\ schema_cache = EmptyDict
    /\ get_aspect_calls = <<>>
    /\ resolve_result = NotCalled

ResolverAtRest == InitResolver /\ graph = FALSE

\* resolve_table(table)
ResolveTable(table, outcomes) ==
    /\ LET result == resolve_table(schema_cache, get_aspect_calls, graph, table, outcomes)
       IN  /\ Len(result.log) <= MaxLookups
           /\ schema_cache' = result.cache
           /\ get_aspect_calls' = result.log
           /\ resolve_result' = [call |-> "resolve_table", table |-> table,
                                 raised |-> result.raised, urn |-> result.urn,
                                 schema_info |-> result.schema_info]
    /\ UNCHANGED <<graph, notResolver>>

\* add_raw_schema_info(urn, schema_info)
AddRawSchemaInfo(urn, schema_info) ==
    /\ schema_cache' = save_to_cache(schema_cache, urn, schema_info)
    /\ resolve_result' = [NotCalled EXCEPT !.call = "add_raw_schema_info"]
    /\ UNCHANGED <<graph, get_aspect_calls, notResolver>>

\* add_schema_metadata(urn, schema_metadata)
AddSchemaMetadata(urn, schema_metadata) ==
    /\ schema_cache' = save_to_cache(schema_cache, urn,
                                     convert_schema_aspect_to_info(schema_metadata))
    /\ resolve_result' = [NotCalled EXCEPT !.call = "add_schema_metadata"]
    /\ UNCHANGED <<graph, get_aspect_calls, notResolver>>

NextResolver ==
    \/ \E table \in ResolverTables, outcomes \in AspectOutcomes \X AspectOutcomes :
         ResolveTable(table, outcomes)
    \/ \E urn \in Urns, schema_info \in SchemaInfos : AddRawSchemaInfo(urn, schema_info)
    \/ \E urn \in Urns, schema_metadata \in SchemaMetadataAspects :
         AddSchemaMetadata(urn, schema_metadata)


\* ---- Properties of the SchemaResolver

\* C11: resolve_table never raises: whatever the external lookup does, the
\* call returns a urn with a schema or None.
C11_ResolveNeverRaises ==
    resolve_result.call = "resolve_table" =>
        /\ ~resolve_result.raised
        /\ resolve_result.urn \in Urns

\* C12: after a lookup of a urn has come back (with an aspect or with None)
\* the urn is in the cache and is not looked up again.
C12_NegativeCaching ==
    /\ \A k \in DOMAIN get_aspect_calls :
         get_aspect_calls[k].kind # "raise" => get_aspect_calls[k].urn \in DOMAIN schema_cache
    /\ \A j, k \in DOMAIN get_aspect_calls :
         (j < k /\ get_aspect_calls[j].urn = get_aspect_calls[k].urn)
            => get_aspect_calls[j].kind = "raise"

\* "Tbl" was resolved with a miss for both of its urns, and then "tbl" was
\* resolved from the cache.
C12_Witness ==
    /\ get_aspect_calls = <<[urn |-> get_urn_for_table(TableName(None, None, "Tbl"), FALSE), kind |-> "None"],
                            [urn |-> get_urn_for_table(TableName(None, None, "tbl"), FALSE), kind |-> "None"]>>
    /\ resolve_result.call = "resolve_table"
    /\ resolve_result.table = TableName(None, None, "tbl")
    /\ resolve_result.schema_info = NoSchemaInfo
    /\ ~resolve_result.raised

\* C13: a resolve of a table whose urn has a schema in the cache returns that
\* schema and makes no external lookup.
C13_SeededEntryIsReturned ==
    [][\A table \in ResolverTables :
         LET urn == get_urn_for_table(table, FALSE)
         IN  (/\ urn \in DOMAIN schema_cache
              /\ schema_cache[urn] # NoSchemaInfo
              /\ \E outcomes \in AspectOutcomes \X AspectOutcomes : ResolveTable(table, outcomes))
                 => /\ resolve_result'.schema_info = schema_cache[urn]
                    /\ resolve_result'.urn = urn
                    /\ get_aspect_calls' = get_aspect_calls]_vars

\* C28: a resolve makes at most two external lookups, the first for the urn
\* of the table as written and the second for the all-lowercase urn; the
\* lowercase urn is looked up only when it differs and the urn as written has
\* no schema; a resolve that finds no schema returns (lowercase urn, None).
C28_CaseFoldingRetriesOnce ==
    [][\A table \in ResolverTables :
         LET urn == get_urn_for_table(table, FALSE)
             urn_lower == get_urn_for_table(table, TRUE)
             new == SubSeq(get_aspect_calls', Len(get_aspect_calls) + 1, Len(get_aspect_calls'))
             looked_up == {new[k].urn : k \in DOMAIN new}
         IN  (\E outcomes \in AspectOutcomes \X AspectOutcomes : ResolveTable(table, outcomes))
                => /\ Len(new) <= 2
                   /\ looked_up \subseteq {urn, urn_lower}
                   /\ Len(new) = 2 => (new[1].urn = urn /\ new[2].urn = urn_lower)
                   /\ (urn_lower # urn /\ urn_lower \in looked_up)
                        => /\ (Len(new) = 2 => new[1].kind # "raise")
                           /\ urn \in DOMAIN schema_cache'
                           /\ ~Truthy(schema_cache'[urn])
                   /\ (~resolve_result'.raised /\ ~Truthy(resolve_result'.schema_info))
                        => /\ resolve_result'.urn = urn_lower
                           /\ resolve_result'.schema_info = NoSchemaInfo]_vars

\* "Tbl" was looked up without a result, then "tbl" with one, which the
\* resolve returned.
C28_Witness ==
    /\ get_aspect_calls =
          <<[urn |-> get_urn_for_table(TableName(None, None, "Tbl"), FALSE), kind |-> "None"],
            [urn |-> get_urn_for_table(TableName(None, None, "Tbl"), TRUE), kind |-> "aspect"]>>
    /\ resolve_result.call = "resolve_table"
    /\ resolve_result.table = TableName(None, None, "Tbl")
    /\ resolve_result.urn = get_urn_for_table(TableName(None, None, "Tbl"), TRUE)
    /\ Truthy(resolve_result.schema_info)

(***************************************************************************)
(* sqlglot_tester (utilities/sqlglot_lineage.py)                           *)
(***************************************************************************)

\* Bound of the model: the output columns of a statement.
MaxSelects == 2

BaseTable == Table("", "", "base")
OtherTable == Table("", "", "tbl")
OutTable == Table("", "", "out")
SecondOutTable == Table("", "", "out2")

\* An output column of the statement: `*`, a column qualified with its
\* table, or a bare column name.
StarColumn == [name |-> "*", kind |-> "star", table |-> BaseTable, column |-> "*"]
QualifiedColumn == [name |-> "a", kind |-> "qualified", table |-> BaseTable, column |-> "a"]
BareColumn == [name |-> "b", kind |-> "bare", table |-> BaseTable, column |-> "b"]

RECURSIVE SeqsUpTo(_, _)
SeqsUpTo(S, n) ==
    IF n = 0 THEN {<<>>}
    ELSE SeqsUpTo(S, n - 1) \cup {Append(q, x) : q \in SeqsUpTo(S, n - 1), x \in S}

SelectLists == SeqsUpTo({StarColumn, QualifiedColumn, BareColumn}, MaxSelects) \ {<<>>}

\* The statements by their tree: SELECT from one table, SELECT from two,
\* INSERT INTO out SELECT, UPDATE, an INSERT ... SELECT whose tree has
\* two DML nodes with a table each, and INSERT INTO base SELECT ... FROM base.
StatementShapes ==
    { [type |-> "Select", tables |-> {BaseTable}, dml |-> {}, ctes |-> {}],
      [type |-> "Select", tables |-> {BaseTable, OtherTable}, dml |-> {}, ctes |-> {}],
      [type |-> "Insert", tables |-> {OutTable, BaseTable, OtherTable},
       dml |-> {[type |-> "Table", table |-> OutTable]}, ctes |-> {}],
      [type |-> "Update", tables |-> {BaseTable},
       dml |-> {[type |-> "Table", table |-> BaseTable]}, ctes |-> {}],
      [type |-> "Insert", tables |-> {OutTable, SecondOutTable, BaseTable},
       dml |-> {[type |-> "Table", table |-> OutTable],
                [type |-> "Table", table |-> SecondOutTable]}, ctes |-> {}],
      [type |-> "Insert", tables |-> {BaseTable},
       dml |-> {[type |-> "Table", table |-> BaseTable]}, ctes |-> {}] }

\* Where the traversal of the scopes meets a circular dependency, if at all.
CircularStages == {"none", "qualify_tables", "qualify_columns", "lineage"}

\* The sql texts given to sqlglot_tester, by what sqlglot makes of them.
SqlTexts ==
    { shape @@ [parses |-> p, circular |-> c, selects |-> s] :
        shape \in StatementShapes, p \in BOOLEAN, c \in CircularStages, s \in SelectLists }

\* Optional[List[ColumnLineageInfo]]
NoColumnLineage == [present |-> FALSE, items |-> <<>>]
SomeColumnLineage(items) == [present |-> TRUE, items |-> items]

ColumnRef(table, column) == [table |-> table, column |-> column]

ColumnLineageInfo(downstream, upstreams) == [downstream |-> downstream, upstreams |-> upstreams]

\* The scopes of a statement, each with the scopes it depends on: a tree, and
\* a CTE scope that depends on itself.
ScopeTree == [root |-> 1, children |-> <<<<2, 3>>, <<>>, <<>>>>]
ScopeCycle == [root |-> 1, children |-> <<<<2, 3>>, <<2>>, <<>>>>]

RECURSIVE traverse_loop(_, _, _, _)
\* The loop of Scope.traverse as patched: a scope popped again raises
\* OptimizeError instead of being walked again.
traverse_loop(children, scope_stack, seen_scopes, result) ==
    IF scope_stack = <<>> THEN [raised |-> FALSE, result |-> result]
    ELSE LET scope == scope_stack[Len(scope_stack)]
             popped == SubSeq(scope_stack, 1, Len(scope_stack) - 1)
         IN  IF scope \in seen_scopes THEN [raised |-> TRUE, result |-> result]
             ELSE traverse_loop(children, popped \o children[scope],
                                seen_scopes \cup {scope}, Append(result, scope))

\* Scope.traverse
traverse(scopes) == traverse_loop(scopes.children, <<scopes.root>>, {}, <<>>)

\* The traversal of the scopes at a stage of the processing raises.
ScopeTraverseRaises(sql, stage) ==
    traverse(IF sql.circular = stage THEN ScopeCycle ELSE ScopeTree).raised

\* The schema resolver given to sqlglot_tester has no graph: nothing is
\* looked up.
NoLookups == <<[kind |-> "None", aspect |-> {}], [kind |-> "None", aspect |-> {}]>>

\* for table in tables: schema_resolver.resolve_table(table); the cache after
\* the loop.
RECURSIVE ResolveAll(_, _)
ResolveAll(cache, tables) ==
    IF tables = {} THEN cache
    ELSE LET table == CHOOSE t \in tables : TRUE
             one == resolve_table(cache, <<>>, FALSE, table, NoLookups)
         IN  ResolveAll(one.cache, tables \ {table})

\* table_name_schema_mapping: the tables with a schema.
TableNameSchemaMapping(cache, tables) ==
    LET schema_of(table) ==
            resolve_table(cache, <<>>, FALSE, table, NoLookups).schema_info
        known == {table \in tables : Truthy(schema_of(table))}
    IN  [table \in known |-> schema_of(table)]

SimplifiedTypeKeepsInsert(type) == type

\* The statement handed to the column-level lineage: the SELECT of an INSERT
\* or of a CREATE, the statement itself otherwise.
SimplifiedType(type) == IF type \in {"Insert", "Create"} THEN "Select" ELSE type

RECURSIVE SetToSeq(_)
SetToSeq(S) ==
    IF S = {} THEN <<>>
    ELSE LET x == CHOOSE y \in S : TRUE IN <<x>> \o SetToSeq(S \ {x})

RECURSIVE ExpandStars(_, _, _)
\* qualify: a `*` becomes the columns of the tables when the schema of every
\* table read is known, and stays otherwise.
ExpandStars(selects, input_tables, read) ==
    IF selects = <<>> THEN <<>>
    ELSE LET col == Head(selects)
             expanded ==
                 SetToSeq(UNION {{[name |-> path[1], kind |-> "qualified", table |-> t,
                                   column |-> path[1]] : path \in DOMAIN input_tables[raw_table_name(t)]} :
                                 t \in {x \in {BaseTable, OtherTable} : raw_table_name(x) \in read}})
         IN  (IF col.kind = "star" /\ read # {} /\ read \subseteq DOMAIN input_tables
              THEN expanded ELSE <<col>>)
                 \o ExpandStars(Tail(selects), input_tables, read)

\* sqlglot.lineage.lineage fails on a bare column of a statement with
\* several tables whose schemas are not all known.
LineageNeedsSchema(col, input_tables, read) ==
    col.kind = "bare" /\ Cardinality(read) > 1 /\ ~(read \subseteq DOMAIN input_tables)

RECURSIVE ColumnLoop(_, _, _, _, _)
\* The loop over the output columns: the list built, or the OptimizeError.
ColumnLoop(sql, selects, input_tables, read, output_table) ==
    IF selects = <<>> THEN [raised |-> FALSE, items |-> <<>>]
    ELSE LET col == Head(selects)
             rest == ColumnLoop(sql, Tail(selects), input_tables, read, output_table)
         IN  IF col.name = "*" THEN rest
             ELSE IF ScopeTraverseRaises(sql, "lineage") \/ LineageNeedsSchema(col, input_tables, read)
             THEN [raised |-> TRUE, items |-> <<>>]
             ELSE IF rest.raised THEN rest
             ELSE [raised |-> FALSE,
                   items |-> <<ColumnLineageInfo(ColumnRef(output_table, col.name),
                                                 {ColumnRef(raw_table_name(col.table), col.column)})>>
                               \o rest.items]

\* _column_level_lineage: the list, or the exception it raises.
column_level_lineage(sql, type, input_tables, read, output_table) ==
    IF ScopeTraverseRaises(sql, "qualify_columns")
    THEN [raised |-> "OptimizeError", items |-> <<>>]
    ELSE IF type \notin {"Select", "Union"}
    THEN [raised |-> "UnsupportedStatementTypeError", items |-> <<>>]
    ELSE LET loop == ColumnLoop(sql, ExpandStars(sql.selects, input_tables, read),
                                input_tables, read, output_table)
         IN  IF loop.raised THEN [raised |-> "SqlOptimizerError", items |-> <<>>]
             ELSE [raised |-> "none", items |-> loop.items]

NoTable == TableName(None, None, None)

AnyModifiedTable(modified) ==
    IF modified = {} THEN NoTable ELSE CHOOSE t \in modified : TRUE

\* downstream_table: the modified table when there is exactly one, else None.
downstream_table_of(modified) ==
    IF Cardinality(modified) = 1 THEN CHOOSE t \in modified : TRUE ELSE NoTable

TesterRaised(exception, cache) ==
    [raised |-> exception, cache |-> cache, in_tables |-> {}, out_tables |-> {},
     column_lineage |-> NoColumnLineage]

CaughtUnsupportedOnly(exception) == exception = "UnsupportedStatementTypeError"

CaughtOptimizerOnly(exception) == exception = "SqlOptimizerError"

\* The except clauses around _column_level_lineage.
Caught(exception) == exception \in {"UnsupportedStatementTypeError", "SqlOptimizerError"}

\* sqlglot_tester: the SqlParsingResult, or the exception that leaves it.
sqlglot_tester(sql, cache) ==
    IF ~sql.parses THEN TesterRaised("ParseError", cache)
    ELSE IF ScopeTraverseRaises(sql, "qualify_tables") THEN TesterRaised("OptimizeError", cache)
    ELSE LET lineage == table_level_lineage(sql)
             downstream_table == downstream_table_of(lineage.modified)
             input_tables == TableNameSchemaMapping(cache, lineage.tables)
             resolved_cache == ResolveAll(cache, lineage.tables)
             columns == column_level_lineage(sql, SimplifiedType(sql.type), input_tables,
                                             lineage.tables, downstream_table)
         IN  IF columns.raised # "none" /\ ~Caught(columns.raised)
             THEN TesterRaised(columns.raised, resolved_cache)
             ELSE [raised |-> "none", cache |-> resolved_cache,
                   in_tables |-> lineage.tables, out_tables |-> lineage.modified,
                   column_lineage |-> IF columns.raised = "none"
                                      THEN SomeColumnLineage(columns.items)
                                      ELSE NoColumnLineage]

NoSql == [type |-> "none", tables |-> {}, dml |-> {}, ctes |-> {}, parses |-> FALSE,
          circular |-> "none", selects |-> <<>>]

\* INSERT INTO sales.totals SELECT customer_id, SUM(amount) AS total
\* FROM sales.orders GROUP BY customer_id, as sqlglot reads it: the output
\* columns customer_id and total, whose leaves are columns of sales.orders.
SalesTotals == Table("", "sales", "totals")
SalesOrders == Table("", "sales", "orders")

SalesInsert ==
    [type |-> "Insert", tables |-> {SalesTotals, SalesOrders},
     dml |-> {[type |-> "Table", table |-> SalesTotals]}, ctes |-> {},
     parses |-> TRUE, circular |-> "none",
     selects |-> <<[name |-> "customer_id", kind |-> "bare", table |-> SalesOrders,
                    column |-> "customer_id"],
                   [name |-> "total", kind |-> "bare", table |-> SalesOrders,
                    column |-> "amount"]>>]

\* The schema of sales.orders.
SalesOrdersSchema == (<<"customer_id">> :> "int") @@ (<<"amount">> :> "int")

NotTested == [raised |-> "not called", in_tables |-> {}, out_tables |-> {},
              column_lineage |-> NoColumnLineage]

InitTester ==
    /\ tester_sql = NoSql
    /\ tester_cache = EmptyDict
    /\ table_name_schema_mapping = EmptyDict
    /\ tester_result = NotTested

\* schema_resolver.add_raw_schema_info: the schema of a table is known to the
\* resolver before a statement is processed.
SeedSchema(table, schema_info) ==
    /\ tester_result = NotTested
    /\ tester_cache' = save_to_cache(tester_cache, get_urn_for_table(table, FALSE), schema_info)
    /\ UNCHANGED <<tester_sql, table_name_schema_mapping, tester_result, notTester>>

\* sqlglot_tester(sql, platform, schema_resolver)
SqlglotTester(sql) ==
    /\ tester_result = NotTested
    /\ LET result == sqlglot_tester(sql, tester_cache)
       IN  /\ tester_sql' = sql
           /\ table_name_schema_mapping' =
                 IF result.raised \in {"ParseError"} \/ ScopeTraverseRaises(sql, "qualify_tables")
                 THEN EmptyDict
                 ELSE TableNameSchemaMapping(tester_cache, table_level_lineage(sql).tables)
           /\ tester_result' = [raised |-> result.raised, in_tables |-> result.in_tables,
                                out_tables |-> result.out_tables,
                                column_lineage |-> result.column_lineage]
           /\ tester_cache' = result.cache
    /\ UNCHANGED notTester

NextTester ==
    \/ \E table \in {raw_table_name(BaseTable), raw_table_name(OtherTable)},
          schema_info \in SchemaInfos : SeedSchema(table, schema_info)
    \/ SeedSchema(raw_table_name(SalesOrders), SalesOrdersSchema)
    \/ \E sql \in SqlTexts \cup {SalesInsert} : SqlglotTester(sql)


\* ---- Properties of sqlglot_tester

\* The statement was processed, sqlglot could parse it and its scopes have no
\* circular dependency, and no table it reads has a schema in the resolver.
ProcessedWithoutSchema ==
    /\ tester_result.raised # "not called"
    /\ tester_sql.parses
    /\ tester_sql.circular = "none"
    /\ DOMAIN table_name_schema_mapping = {}

TesterWriteTables ==
    {ReferenceName(e.table) : e \in {x \in tester_sql.dml : x.type = "Table"}}

TesterReadTables ==
    {ReferenceName(table) : table \in tester_sql.tables} \ TesterWriteTables

TableLineageIsCarried ==
    /\ tester_result.raised = "none"
    /\ tester_result.in_tables = TesterReadTables
    /\ tester_result.out_tables = TesterWriteTables

ColumnStageError ==
    IF \/ tester_result.raised = "not called"
       \/ ~tester_sql.parses
       \/ tester_sql.circular = "qualify_tables"
    THEN "none"
    ELSE column_level_lineage(tester_sql,
                              IF tester_sql.type \in {"Insert", "Create"} THEN "Select"
                              ELSE tester_sql.type,
                              table_name_schema_mapping, TesterReadTables, NoTable).raised

TesterColumnLineage ==
    {tester_result.column_lineage.items[k] : k \in DOMAIN tester_result.column_lineage.items}

\* C30: the downstream table of every column-lineage record is the write
\* table of the statement when it has exactly one, and None when it has
\* none or several.
C30_DownstreamTableIsSingleWriteTarget ==
    \A item \in TesterColumnLineage :
        /\ Cardinality(TesterWriteTables) = 1 => TesterWriteTables = {item.downstream.table}
        /\ Cardinality(TesterWriteTables) # 1 =>
              item.downstream.table = [database |-> None, db_schema |-> None, table |-> None]

\* A statement with two write tables and a column lineage, whose records
\* have no downstream table.
C30_Witness ==
    /\ Cardinality(TesterWriteTables) = 2
    /\ tester_result.out_tables = TesterWriteTables
    /\ tester_result.column_lineage.present
    /\ TesterColumnLineage # {}
    /\ \A item \in TesterColumnLineage :
          item.downstream.table = [database |-> None, db_schema |-> None, table |-> None]

\* C33: every upstream of a record of the column lineage names a table
\* that is among the in_tables of the same result.
C33_UpstreamTablesAreReadTables ==
    \A item \in TesterColumnLineage :
        \A upstream \in item.upstreams : upstream.table \in tester_result.in_tables

\* C16: a circular scope dependency never leaves the processing of the
\* statement as an exception, at whichever stage the traversal meets it.
C16_CircularScopeNeverPropagates ==
    (tester_sql.parses /\ tester_sql.circular # "none") => tester_result.raised = "none"

(***************************************************************************)
(* BigqueryLineageExtractor._create_lineage_map (bigquery/lineage.py)      *)
(***************************************************************************)

\* Bound of the model: the query events of the log.
MaxEntries == 2

\* A table reference of a query event: the table, and whether the reference
\* carries a shard or partition decoration.
EventRef(table_identifier, extras) == [table_identifier |-> table_identifier, extras |-> extras]

\* BigQueryTableRef.remove_extras: the reference without its decoration.
remove_extras(ref) == EventRef(ref.table_identifier, FALSE)

\* str(ref) of a reference without decoration.
EventRefStr(ref) == RefStr(ref.table_identifier)

NoDestination == EventRef(BigqueryTableIdentifier(None, <<>>, None), FALSE)

\* What BigQuerySQLParser(e.query).get_tables() gives: it raises, or it
\* returns table names.
ParserOutcomes == {[raises |-> TRUE, tables |-> {}], [raises |-> FALSE, tables |-> {"b"}],
                   [raises |-> FALSE, tables |-> {"b", "c"}]}

\* The query events of the log.
QueryEvents ==
    { [destinationTable |-> d, referencedTables |-> t, referencedViews |-> v, parser |-> p] :
        d \in {NoDestination, EventRef(TableA, FALSE), EventRef(TableA, TRUE), EventRef(TableB, FALSE)},
        t \in SUBSET {EventRef(TableA, FALSE), EventRef(TableB, TRUE)},
        v \in SUBSET {EventRef(TableC, FALSE)},
        p \in ParserOutcomes }

\* config.schema_pattern and config.table_pattern, by what they deny.
PatternConfigs ==
    { [schema_deny |-> s, table_deny |-> t] : s \in {{}, {TempDataset}}, t \in {{}, {"a"}, {"b"}} }

\* AllowDenyPattern.allowed
allowed(deny, name) == name \notin deny

\* The test of lines 316-318 on the parts of the destination.
DestinationAllowed(config, destination_table_str) ==
    /\ allowed(config.schema_deny, destination_table_str[4])
    /\ allowed(config.table_deny, destination_table_str[6])

NoReport == [num_total_lineage_entries |-> 0,
             num_skipped_lineage_entries_missing_data |-> 0,
             num_skipped_lineage_entries_not_allowed |-> 0,
             num_skipped_lineage_entries_other |-> 0,
             num_skipped_lineage_entries_sql_parser_failure |-> 0]

\* defaultdict(set): lineage_map[key]
MapGet(map, key) == IF key \in DOMAIN map THEN map[key] ELSE {}

\* One round of the loop of _create_lineage_map: the map and the report
\* after the entry e.
create_lineage_map_entry(config, map, report, e) ==
    LET counted == [report EXCEPT !.num_total_lineage_entries = @ + 1]
        destination_table_str == EventRefStr(remove_extras(e.destinationTable))
        tables == {EventRefStr(remove_extras(r)) : r \in e.referencedTables} \ {destination_table_str}
        views == {EventRefStr(remove_extras(r)) : r \in e.referencedViews} \ {destination_table_str}
        has_table == tables # {}
        has_view == views # {}
        added == IF tables \cup views = {} THEN map
                 ELSE SetItem(map, destination_table_str,
                              MapGet(map, destination_table_str) \cup tables \cup views)
        direct == {s \in MapGet(added, destination_table_str) : s[6] \in e.parser.tables}
    IN  IF e.destinationTable = NoDestination \/ (e.referencedTables = {} /\ e.referencedViews = {})
        THEN [map |-> map,
              report |-> [counted EXCEPT !.num_skipped_lineage_entries_missing_data = @ + 1]]
        ELSE IF ~DestinationAllowed(config, destination_table_str)
        THEN [map |-> map,
              report |-> [counted EXCEPT !.num_skipped_lineage_entries_not_allowed = @ + 1]]
        ELSE IF has_table /\ has_view
        THEN IF e.parser.raises
             THEN [map |-> added,
                   report |-> [counted EXCEPT !.num_skipped_lineage_entries_sql_parser_failure = @ + 1]]
             ELSE [map |-> SetItem(added, destination_table_str, direct), report |-> counted]
        ELSE IF ~(has_table \/ has_view)
        THEN [map |-> added,
              report |-> [counted EXCEPT !.num_skipped_lineage_entries_other = @ + 1]]
        ELSE [map |-> added, report |-> counted]

InitMap ==
    /\ pattern_config \in PatternConfigs
    /\ entry_lineage_map = EmptyDict
    /\ lineage_report = NoReport

MapAtRest == InitMap /\ pattern_config = [schema_deny |-> {}, table_deny |-> {}]

\* for e in entries: one entry of the log goes through the loop.
CreateLineageMapEntry(e) ==
    /\ lineage_report.num_total_lineage_entries < MaxEntries
    /\ LET after == create_lineage_map_entry(pattern_config, entry_lineage_map, lineage_report, e)
       IN  /\ entry_lineage_map' = after.map
           /\ lineage_report' = after.report
    /\ UNCHANGED <<pattern_config, notMap>>

NextMap == \E e \in QueryEvents : CreateLineageMapEntry(e)

\* ---- Properties of the lineage map

\* The tables the patterns deny.
IsDenied(table_str) ==
    table_str[4] \in pattern_config.schema_deny \/ table_str[6] \in pattern_config.table_deny

\* C17: no table of the lineage map, destination or upstream, is a table the
\* patterns deny.
C17_NoDeniedTableInLineage ==
    \A d \in DOMAIN entry_lineage_map :
        ~IsDenied(d) /\ \A u \in entry_lineage_map[d] : ~IsDenied(u)

\* C35: while the lineage map is built, the upstream set of a destination
\* only grows: no entry of the log removes an upstream an earlier entry added.
C35_UpstreamSetOnlyGrows ==
    [][\A d \in DOMAIN entry_lineage_map :
          /\ d \in DOMAIN entry_lineage_map'
          /\ entry_lineage_map[d] \subseteq entry_lineage_map'[d]]_vars

(***************************************************************************)
(* The run of a queries source: fetch, add, gen_metadata                   *)
(* (snowflake_queries.py, bigquery_v2/queries_extractor.py)                *)
(***************************************************************************)

\* Bound of the model: the rows of the audit log.
MaxRows == 3

\* The entries a FileBackedList keeps in memory before it writes to disk.
cache_max_size == 1

\* A row of the audit log: whether the row itself can be parsed, what the
\* parsing of its sql does, and the lineage of the query.
LogRow(row_ok, outcome, query, downstream, upstream) ==
    [row_ok |-> row_ok, outcome |-> outcome, query |-> query,
     downstream |-> downstream, upstream |-> upstream]

LogRows ==
    { LogRow(FALSE, "ok", "q0", "x", "u"),
      LogRow(TRUE, "ParseError", "q1", "x", "u"),
      LogRow(TRUE, "timeout", "q2", "y", "v"),
      LogRow(TRUE, "ok", "q3", "x", "u"),
      LogRow(TRUE, "ok", "q4", "x", "v") }

AuditLogs == SeqsUpTo(LogRows, MaxRows) \ {<<>>}

\* FileBackedList: what is on disk, and what is still in memory only.
EmptyList == [disk |-> <<>>, cache |-> <<>>]

\* FileBackedList.append: the memory is written out when it is over its size.
list_append(list, item) ==
    LET cache == Append(list.cache, item)
    IN  IF Len(cache) > cache_max_size
        THEN [disk |-> list.disk \o cache, cache |-> <<>>]
        ELSE [disk |-> list.disk, cache |-> cache]

ListItemsMemoryFirst(list) == list.cache \o list.disk

\* FileBackedList.__iter__: the items by index, from disk or from memory.
ListItems(list) == list.disk \o list.cache

\* The state of the SqlParsingAggregator: the dedup map (query -> count),
\* the lineage map (downstream -> upstreams), the usage counters.
EmptyAggregator == [dedup |-> EmptyDict, lineage |-> EmptyDict, usage |-> EmptyDict]

NoRunReport == [row_warnings |-> <<>>, parse_failures |-> <<>>]

Count(d, k) == IF k \in DOMAIN d THEN d[k] ELSE 0

\* The contribution of a parsed query.
add_parsed(agg, item) ==
    [dedup |-> SetItem(agg.dedup, item.query, Count(agg.dedup, item.query) + 1),
     lineage |-> SetItem(agg.lineage, item.downstream,
                         MapGet(agg.lineage, item.downstream) \cup {item.upstream}),
     usage |-> SetItem(agg.usage, item.upstream, Count(agg.usage, item.upstream) + 1)]

AbortedAfterDedup(agg, item) ==
    [agg EXCEPT !.dedup = SetItem(@, item.query, Count(@, item.query) + 1)]

\* The state after a processing that the cooperative yield check aborted:
\* the abort comes while the statement is parsed, before anything is added.
aborted(agg, item) == agg

FailureRaises(outcome) == outcome # "ok"

\* Whether a failure of the parsing leaves add as an exception.
failure_raises(outcome) == FALSE

\* SqlParsingAggregator.add: the aggregator after it, the report, and
\* whether add raised.
aggregator_add(agg, report, item) ==
    IF item.outcome = "ok"
    THEN [aggregator |-> add_parsed(agg, item), report |-> report, raised |-> FALSE]
    ELSE [aggregator |-> IF item.outcome = "timeout" THEN aborted(agg, item)
                         ELSE agg,
          report |-> [report EXCEPT !.parse_failures = Append(@, item.query)],
          raised |-> failure_raises(item.outcome)]

YieldDrains(agg, record) ==
    IF record.aspect = "datasetUsageStatistics"
    THEN [agg EXCEPT !.usage = [u \in DOMAIN agg.usage \ {record.entity} |-> agg.usage[u]]]
    ELSE agg

\* The state of the aggregator after gen_metadata has yielded a record: the
\* records are computed from the state, which stays as it is.
after_yield(agg, record) == agg

\* The records gen_metadata yields for a state of the aggregator.
MetadataRecords(agg) ==
    {[aspect |-> "upstreamLineage", entity |-> d, upstreams |-> agg.lineage[d], count |-> 0] :
        d \in DOMAIN agg.lineage}
    \cup {[aspect |-> "datasetUsageStatistics", entity |-> u, upstreams |-> {},
           count |-> agg.usage[u]] : u \in DOMAIN agg.usage}
    \cup {[aspect |-> "queryUsageStatistics", entity |-> q, upstreams |-> {},
           count |-> agg.dedup[q]] : q \in DOMAIN agg.dedup}

InitRun ==
    /\ audit_log \in AuditLogs
    /\ run_pc = "fetch"
    /\ row_index = 0
    /\ queries_file = EmptyList
    /\ add_index = 0
    /\ received = <<>>
    /\ aggregator = EmptyAggregator
    /\ run_report = NoRunReport
    /\ yielded = <<>>
    /\ yielded_before = <<>>
    /\ gen_calls = 0

RunAtRest == InitRun /\ audit_log = <<LogRow(TRUE, "ok", "q3", "x", "u")>>

\* for row in resp: the row is parsed and appended; a row that cannot be
\* parsed is reported as a warning.
FetchRow ==
    /\ run_pc = "fetch"
    /\ row_index < Len(audit_log)
    /\ row_index' = row_index + 1
    /\ LET row == audit_log[row_index + 1]
       IN  IF row.row_ok
           THEN /\ queries_file' = list_append(queries_file, row)
                /\ UNCHANGED run_report
           ELSE /\ run_report' = [run_report EXCEPT !.row_warnings = Append(@, row_index + 1)]
                /\ UNCHANGED queries_file
    /\ UNCHANGED <<audit_log, run_pc, add_index, received, aggregator, yielded,
                   yielded_before, gen_calls, notRun>>

\* The log is exhausted: the loop over the queries starts.
FetchDone ==
    /\ run_pc = "fetch"
    /\ row_index = Len(audit_log)
    /\ run_pc' = "add"
    /\ UNCHANGED <<audit_log, row_index, queries_file, add_index, received, aggregator,
                   run_report, yielded, yielded_before, gen_calls, notRun>>

\* for query in queries: self.aggregator.add(query)
AddQuery ==
    /\ run_pc = "add"
    /\ add_index < Len(ListItems(queries_file))
    /\ LET query == ListItems(queries_file)[add_index + 1]
           after == aggregator_add(aggregator, run_report, query)
       IN  /\ received' = Append(received, query)
           /\ aggregator' = after.aggregator
           /\ run_report' = after.report
           /\ run_pc' = IF after.raised THEN "crashed" ELSE run_pc
    /\ add_index' = add_index + 1
    /\ UNCHANGED <<audit_log, row_index, queries_file, yielded, yielded_before,
                   gen_calls, notRun>>

\* self.aggregator.gen_metadata() is called.
GenStart ==
    /\ \/ run_pc = "add" /\ add_index = Len(ListItems(queries_file))
       \/ run_pc = "done" /\ gen_calls < 2
    /\ run_pc' = "gen"
    /\ yielded_before' = yielded
    /\ yielded' = <<>>
    /\ UNCHANGED <<audit_log, row_index, queries_file, add_index, received, aggregator,
                   run_report, gen_calls, notRun>>

\* gen_metadata yields its next record.
GenYield ==
    /\ run_pc = "gen"
    /\ Len(yielded) < Cardinality(MetadataRecords(aggregator))
    /\ LET record == SetToSeq(MetadataRecords(aggregator))[Len(yielded) + 1]
       IN  /\ yielded' = Append(yielded, record)
           /\ aggregator' = after_yield(aggregator, record)
    /\ UNCHANGED <<audit_log, run_pc, row_index, queries_file, add_index, received,
                   run_report, yielded_before, gen_calls, notRun>>

\* gen_metadata is exhausted.
GenFinish ==
    /\ run_pc = "gen"
    /\ Len(yielded) >= Cardinality(MetadataRecords(aggregator))
    /\ run_pc' = "done"
    /\ gen_calls' = gen_calls + 1
    /\ UNCHANGED <<audit_log, row_index, queries_file, add_index, received, aggregator,
                   run_report, yielded, yielded_before, notRun>>

NextRun ==
    \/ FetchRow
    \/ FetchDone
    \/ AddQuery
    \/ GenStart
    \/ GenYield
    \/ GenFinish


\* ---- Properties of the run

\* What the collector produces: the rows of the log that can be parsed, in
\* the order of the log.
Entries == SelectSeq(audit_log, LAMBDA row : row.row_ok)

\* The entries among the first n whose sql was parsed.
ParsedAmong(n) == {k \in 1..n : Entries[k].outcome = "ok"}

FailedAmong(n) == SelectSeq(SubSeq(Entries, 1, n), LAMBDA row : row.outcome # "ok")

SeqRange(q) == {q[k] : k \in DOMAIN q}

C20_SequencePreservesOrder ==
    /\ ListItems(queries_file) = SelectSeq(SubSeq(audit_log, 1, row_index), LAMBDA row : row.row_ok)
    /\ received = SubSeq(Entries, 1, add_index)

\* Three queries went through a list that has items on disk and in memory.
C20_Witness ==
    /\ queries_file.disk # <<>>
    /\ queries_file.cache # <<>>
    /\ Len(received) = 3
    /\ received[1] # received[2]
    /\ run_pc = "done"

(***************************************************************************)
(* The cached audit log                                                    *)
(***************************************************************************)

MaxAppends == 3

\* The queries of query_log.json, and the queries the query log returns.
CachedQueries == {"c1", "c2", "c3"}

QueryLog == <<"f1", "f2">>

NoFile == [exists |-> FALSE, rows |-> <<>>]

\* ConnectionWrapper(path): sqlite creates the file when it is missing.
connect(file) == [exists |-> TRUE, rows |-> file.rows]

\* FileBackedList(connection) against a store: the rows of the store are its
\* items, nothing is in memory.
list_open(file) == [disk |-> file.rows, cache |-> <<>>]

FlushKeepsMemory(list) == list

\* FileBackedList.flush: what is in memory is written to the store.
list_flush(list) == [disk |-> list.disk \o list.cache, cache |-> <<>>]

RECURSIVE append_all(_, _)
append_all(list, items) ==
    IF items = <<>> THEN list
    ELSE append_all(list_append(list, Head(items)), Tail(items))

InitStore ==
    /\ audit_log_file \in {NoFile, connect(NoFile)}
    /\ query_cache = EmptyList
    /\ appended = <<>>
    /\ flushed = FALSE
    /\ store_pc = "start"
    /\ opened = EmptyList
    /\ fetches = 0

StoreAtRest == InitStore /\ audit_log_file = NoFile

\* _generate_queries_cached_file: query_cache.append(ObservedQuery(**query))
CacheAppend(query) ==
    /\ store_pc = "start"
    /\ audit_log_file.exists
    /\ Len(appended) < MaxAppends
    /\ query_cache' = list_append(query_cache, query)
    /\ appended' = Append(appended, query)
    /\ audit_log_file' = [audit_log_file EXCEPT !.rows = query_cache'.disk]
    /\ flushed' = FALSE
    /\ UNCHANGED <<store_pc, opened, fetches, notStore>>

\* _generate_queries_cached_file: query_cache.flush()
CacheFlush ==
    /\ store_pc = "start"
    /\ audit_log_file.exists
    /\ ~flushed
    /\ query_cache' = list_flush(query_cache)
    /\ audit_log_file' = [audit_log_file EXCEPT !.rows = query_cache'.disk]
    /\ flushed' = TRUE
    /\ UNCHANGED <<appended, store_pc, opened, fetches, notStore>>

\* get_workunits_internal, lines 211-219: the store exists and is used.
UseCachedAuditLog ==
    /\ store_pc = "start"
    /\ audit_log_file.exists
    /\ opened' = list_open(connect(audit_log_file))
    /\ store_pc' = "cached"
    /\ UNCHANGED <<audit_log_file, query_cache, appended, flushed, fetches, notStore>>

\* get_workunits_internal, lines 220-233: no store, the query log is fetched
\* into a new one.
FetchAuditLog ==
    /\ store_pc = "start"
    /\ ~audit_log_file.exists
    /\ fetches' = fetches + 1
    /\ opened' = append_all(list_open(connect(NoFile)), QueryLog)
    /\ audit_log_file' = [exists |-> TRUE, rows |-> opened'.disk]
    /\ store_pc' = "fetched"
    /\ UNCHANGED <<query_cache, appended, flushed, notStore>>

NextStore ==
    \/ \E query \in CachedQueries : CacheAppend(query)
    \/ CacheFlush
    \/ UseCachedAuditLog
    \/ FetchAuditLog

\* ---- Properties of the cached audit log

\* C21: after appends followed by flush(), a list opened against the same
\* store has the appended items in their order, and the run that finds the
\* store uses it and does not fetch the query log.
C21_ReopenRoundTrip ==
    /\ flushed => ListItems(list_open(audit_log_file)) = appended
    /\ (store_pc = "cached" /\ flushed) => (ListItems(opened) = appended /\ fetches = 0)
    /\ store_pc = "cached" => fetches = 0

\* Three appends, of which the last was still in memory before the flush,
\* and the run used the store.
C21_Witness ==
    /\ store_pc = "cached"
    /\ flushed
    /\ Len(appended) = 3
    /\ appended[1] # appended[2]
    /\ ListItems(opened) = appended
    /\ fetches = 0

(***************************************************************************)
(* Deduplication over the FileBackedDict                                   *)
(***************************************************************************)

\* The entries a FileBackedDict keeps in memory, and the entries it writes
\* out at a time when it is over that size.
dict_cache_max_size == 1
cache_eviction_batch_size == 1

\* The timestamps of the entries: one in the first bucket, one in the last.
BackedTimestamps == {1, MaxTime}

BackedQueries ==
    SeqsUpTo({ObservedQuery(query, timestamp) :
                query \in QueryTexts, timestamp \in BackedTimestamps}, MaxQueries)

\* FileBackedDict(): the objects in memory, oldest first, each with its
\* dirty flag, and the rows of the store.
EmptyBacked == [cache |-> <<>>, disk |-> EmptyDict]

InCache(d, key) == \E k \in DOMAIN d.cache : d.cache[k].key = key

CacheValue(d, key) == d.cache[CHOOSE k \in DOMAIN d.cache : d.cache[k].key = key].value

\* FileBackedDict._prune_cache: the oldest objects leave the memory; the
\* dirty ones are written to the store.
RECURSIVE prune_cache(_, _)
prune_cache(d, num_items_to_prune) ==
    IF num_items_to_prune = 0 \/ d.cache = <<>> THEN d
    ELSE LET oldest == Head(d.cache)
         IN  prune_cache([cache |-> Tail(d.cache),
                          disk |-> IF oldest.dirty
                                   THEN SetItem(d.disk, oldest.key, oldest.value)
                                   ELSE d.disk],
                         num_items_to_prune - 1)

\* FileBackedDict._add_to_cache
add_to_cache(d, key, value, dirty) ==
    LET entry == [key |-> key, value |-> value, dirty |-> dirty]
        cache == IF InCache(d, key)
                 THEN [k \in DOMAIN d.cache |->
                         IF d.cache[k].key = key THEN entry ELSE d.cache[k]]
                 ELSE Append(d.cache, entry)
        added == [cache |-> cache, disk |-> d.disk]
    IN  IF Len(cache) > dict_cache_max_size
        THEN prune_cache(added, cache_eviction_batch_size)
        ELSE added

\* FileBackedDict.__getitem__ of a key the dict has: an object in memory
\* becomes the newest, a row of the store is read into memory, not dirty.
getitem(d, key) ==
    IF InCache(d, key)
    THEN [cache |-> SelectSeq(d.cache, LAMBDA e : e.key # key)
                      \o SelectSeq(d.cache, LAMBDA e : e.key = key),
          disk |-> d.disk]
    ELSE add_to_cache(d, key, d.disk[key], FALSE)

\* FileBackedDict.__setitem__
setitem(d, key, value) == add_to_cache(d, key, value, TRUE)

\* MutableMapping.setdefault: self[key], and self[key] = default on KeyError.
backed_setdefault(d, key, default) ==
    IF InCache(d, key) \/ key \in DOMAIN d.disk
    THEN getitem(d, key)
    ELSE setitem(d, key, default)

\* A change made to the object got from the dict: the object in memory
\* changes, its dirty flag does not.
mutate_in_place(d, key, value) ==
    [cache |-> [k \in DOMAIN d.cache |->
                  IF d.cache[k].key = key THEN [d.cache[k] EXCEPT !.value = value]
                  ELSE d.cache[k]],
     disk |-> d.disk]

\* FileBackedDict.flush: the dirty objects in memory are written.
RECURSIVE backed_flush(_, _)
backed_flush(d, k) ==
    IF k > Len(d.cache) THEN d
    ELSE backed_flush(
            [cache |-> [d.cache EXCEPT ![k].dirty = FALSE],
             disk |-> IF d.cache[k].dirty
                      THEN SetItem(d.disk, d.cache[k].key, d.cache[k].value)
                      ELSE d.disk],
            k + 1)

\* FileBackedDict.items: the rows of the store after a flush.
backed_items(d) == backed_flush(d, 1).disk

\* Lines 286-291 on the query_instances of the fingerprint.
update_instances(query_instances, time_bucket, query) ==
    IF time_bucket \in DOMAIN query_instances
    THEN SetItem(query_instances, time_bucket,
                 MergeObserved(query_instances[time_bucket], query))
    ELSE SetItem(query_instances, time_bucket, query)

\* One iteration of the loop of deduplicate_queries over entry q, with
\* queries_deduped a FileBackedDict.
BackedDedupOne(d, q) ==
    LET time_bucket == TimeBucket(q)
        query == [q EXCEPT !.query_hash = get_query_fingerprint(q.query)]
        got == backed_setdefault(d, query.query_hash, EmptyDict)
        query_instances == CacheValue(got, query.query_hash)
    IN  mutate_in_place(got, query.query_hash,
                        update_instances(query_instances, time_bucket, query))

InitBacked ==
    /\ backed_queries \in BackedQueries
    /\ backed_pc = "dedup"
    /\ backed_i = 1
    /\ backed_deduped = EmptyBacked
    /\ plain_deduped = EmptyDict
    /\ backed_result = EmptyDict

BackedAtRest == InitBacked /\ backed_queries = <<>>

\* An iteration of the loop, over the FileBackedDict and over a dict.
BackedDedupStep ==
    /\ backed_pc = "dedup"
    /\ backed_i <= Len(backed_queries)
    /\ backed_deduped' = BackedDedupOne(backed_deduped, backed_queries[backed_i])
    /\ plain_deduped' = DedupOne(plain_deduped, backed_queries[backed_i])
    /\ backed_i' = backed_i + 1
    /\ UNCHANGED <<backed_queries, backed_pc, backed_result, notBacked>>

\* deduplicate_queries returns and queries_deduped.values() is read.
BackedRead ==
    /\ backed_pc = "dedup"
    /\ backed_i > Len(backed_queries)
    /\ backed_pc' = "done"
    /\ backed_result' = backed_items(backed_deduped)
    /\ UNCHANGED <<backed_queries, backed_i, backed_deduped, plain_deduped, notBacked>>

NextBacked ==
    \/ BackedDedupStep
    \/ BackedRead

\* ---- Properties of the deduplication over the FileBackedDict

MaxScopes == 3

Scopes == 1..MaxScopes

\* The scopes a scope depends on, in the order traverse pushes them.
ChildLists == {SetToSeq(S) : S \in SUBSET Scopes}

\* The scope graphs of the model, scope 1 the root.
ScopeGraphs == {[root |-> 1, children |-> c] : c \in [Scopes -> ChildLists]}

NotTraversed == [traversed |-> FALSE, raised |-> FALSE, result |-> <<>>]

InitScope ==
    /\ scope_graph \in ScopeGraphs
    /\ traversal = NotTraversed

ScopeAtRest == InitScope /\ scope_graph = [root |-> 1, children |-> [s \in Scopes |-> <<>>]]

\* scope.traverse()
Traverse ==
    /\ ~traversal.traversed
    /\ LET done == traverse(scope_graph)
       IN  traversal' = [traversed |-> TRUE, raised |-> done.raised, result |-> done.result]
    /\ UNCHANGED <<scope_graph, notScope>>

NextScope == Traverse

\* ---- Properties of the traversal

RECURSIVE ReachableIn(_, _, _)
\* The scopes reached from a set of scopes in at most n steps of dependency.
ReachableIn(children, from, n) ==
    IF n = 0 THEN from
    ELSE ReachableIn(children,
                     from \cup UNION {{children[s][k] : k \in DOMAIN children[s]} : s \in from},
                     n - 1)

DependsOn(children, s) == {children[s][k] : k \in DOMAIN children[s]}

\* The scopes the traversal of the root has to go through.
ReachableScopes == ReachableIn(scope_graph.children, {scope_graph.root}, MaxScopes)

\* A scope of the traversal is reachable from itself.
HasCircularDependency ==
    \E s \in ReachableScopes :
        s \in ReachableIn(scope_graph.children, DependsOn(scope_graph.children, s), MaxScopes)

\* C32: the traversal raises exactly when a scope is reachable from itself;
\* without such a scope it returns every scope, also when a scope is
\* reachable from the root along two paths.
C32_GuardReportsExactlyCycles ==
    traversal.traversed =>
        /\ traversal.raised <=> HasCircularDependency
        /\ ~HasCircularDependency =>
              {traversal.result[k] : k \in DOMAIN traversal.result} = ReachableScopes

(***************************************************************************)
(* Specifications                                                          *)
(***************************************************************************)

\* The lineage extractor while the other subsystems run.
TempAtRest == InitTemp /\ upstream_lineage_in_report = FALSE

InitSpecDedup == InitDedup /\ TempAtRest /\ InitEdge /\ InitTable /\ ResolverAtRest /\ InitTester /\ MapAtRest /\ RunAtRest /\ StoreAtRest /\ BackedAtRest /\ ScopeAtRest

SpecDedup == InitSpecDedup /\ [][NextDedup]_vars

InitSpecTemp == InitTemp /\ InitDedup /\ InitEdge /\ InitTable /\ ResolverAtRest /\ InitTester /\ MapAtRest /\ RunAtRest /\ StoreAtRest /\ BackedAtRest /\ ScopeAtRest

SpecTemp == InitSpecTemp /\ [][NextTemp]_vars

\* The calls are run to completion: a step that can be taken is taken.
FairSpecTemp == SpecTemp /\ WF_vars(NextTemp)

InitSpecEdge == InitEdge /\ InitDedup /\ TempAtRest /\ InitTable /\ ResolverAtRest /\ InitTester /\ MapAtRest /\ RunAtRest /\ StoreAtRest /\ BackedAtRest /\ ScopeAtRest

SpecEdge == InitSpecEdge /\ [][NextEdge]_vars

InitSpecTable == InitTable /\ InitDedup /\ TempAtRest /\ InitEdge /\ ResolverAtRest /\ InitTester /\ MapAtRest /\ RunAtRest /\ StoreAtRest /\ BackedAtRest /\ ScopeAtRest

SpecTable == InitSpecTable /\ [][NextTable]_vars

InitSpecResolver == InitResolver /\ InitDedup /\ TempAtRest /\ InitEdge /\ InitTable /\ InitTester /\ MapAtRest /\ RunAtRest /\ StoreAtRest /\ BackedAtRest /\ ScopeAtRest

SpecResolver == InitSpecResolver /\ [][NextResolver]_vars

InitSpecTester == InitTester /\ InitDedup /\ TempAtRest /\ InitEdge /\ InitTable /\ ResolverAtRest /\ MapAtRest /\ RunAtRest /\ StoreAtRest /\ BackedAtRest /\ ScopeAtRest

SpecTester == InitSpecTester /\ [][NextTester]_vars

InitSpecMap == InitMap /\ InitDedup /\ TempAtRest /\ InitEdge /\ InitTable /\ ResolverAtRest /\ InitTester /\ RunAtRest /\ StoreAtRest /\ BackedAtRest /\ ScopeAtRest

SpecMap == InitSpecMap /\ [][NextMap]_vars

InitSpecRun == InitRun /\ InitDedup /\ TempAtRest /\ InitEdge /\ InitTable /\ ResolverAtRest /\ InitTester /\ MapAtRest /\ StoreAtRest /\ BackedAtRest /\ ScopeAtRest

SpecRun == InitSpecRun /\ [][NextRun]_vars

\* The run is not stopped from outside: a step that can be taken is taken.
FairSpecRun == SpecRun /\ WF_vars(NextRun)

InitSpecStore == InitStore /\ InitDedup /\ TempAtRest /\ InitEdge /\ InitTable /\ ResolverAtRest /\ InitTester /\ MapAtRest /\ RunAtRest /\ BackedAtRest /\ ScopeAtRest

SpecStore == InitSpecStore /\ [][NextStore]_vars

InitSpecBacked == InitBacked /\ InitDedup /\ TempAtRest /\ InitEdge /\ InitTable /\ ResolverAtRest /\ InitTester /\ MapAtRest /\ RunAtRest /\ StoreAtRest /\ ScopeAtRest

SpecBacked == InitSpecBacked /\ [][NextBacked]_vars

InitSpecScope == InitScope /\ InitDedup /\ TempAtRest /\ InitEdge /\ InitTable /\ ResolverAtRest /\ InitTester /\ MapAtRest /\ RunAtRest /\ StoreAtRest /\ BackedAtRest

SpecScope == InitSpecScope /\ [][NextScope]_vars

====
